---- MODULE Spec2Model ----
(***************************************************************************)
(* A model of the Hysteria compiler front end: the parser of               *)
(* src/src/parser.ts (recursive descent over statements, Pratt parsing of  *)
(* expressions, the module-level cursor `state`) and the semantic analyzer *)
(* of src/src/semanticAnalysis.ts (scope tree, two-pass analysis with the  *)
(* module-level callStack and contextStack).                               *)
(*                                                                         *)
(* JavaScript values are modelled as follows.  Array indices stay 0-based  *)
(* as in the source (tokens[i] is tokens[i + 1] here).  `undefined` read   *)
(* from an array is the record Undefined; a property read of undefined     *)
(* without `?.` is a thrown TypeError.  A thrown exception ends the call   *)
(* with status "failed" and the error record in the error variable.       *)
(***************************************************************************)
EXTENDS Integers, Sequences, FiniteSets, TLC

VARIABLES
    \* ---- parser.ts ----
    tokens,        \* the argument of the parse call in progress (or the last one)
    current,       \* state.current, the module-level cursor (parser.ts:57)
    pstack,        \* the activation records of the recursive descent, top last
    pstatus,       \* "idle" | "running" | "returned" | "failed"
    presult,       \* the AST returned by the last parse call that returned
    perror,        \* the error thrown by the last parse call that failed
    pcalls,        \* number of parse calls made so far in this process
    pprev,         \* tokens/status/result of the previous finished parse call
    lastExpr,      \* the last statement-level parseExpression call: start, result
    \* ---- semanticAnalysis.ts ----
    ast,           \* the argument of the analyze call in progress (or the last one)
    scopes,        \* every Scope object created so far (an arena; index = identity)
    work,          \* what is left of the pass-1 traversal, next task first
    callStack,     \* the module-level callStack (semanticAnalysis.ts:131)
    contextStack,  \* the module-level contextStack (semanticAnalysis.ts:185)
    astatus,       \* "idle" | "pass1" | "pass2" | "returned" | "failed"
    aerror,        \* the error thrown by the last analyze call that failed
    acalls,        \* number of analyze calls made so far in this process
    astart,        \* the AST given to the call in progress and the callStack/contextStack sizes it found
    alog,          \* what the call in progress has done so far (history)
    \* --- tokenizer (module-level state, never reset) ---
    arr,           \* the characters of the source after the operators were fused
    idx,           \* `i`: index in arr of the next character (0-based)
    charArr,       \* characters of the identifier or number being built
    emitted,       \* `tokens`: the tokens added so far
    curLine,       \* `line`
    curColumn,     \* `column`
    startOfToken,  \* column where the token in charArr started
    sstatus,       \* "idle" | "running" | "returned"
    scalls         \* number of tokenizer calls made so far in this process

pvars == <<tokens, current, pstack, pstatus, presult, perror, pcalls, pprev, lastExpr>>
avars == <<ast, scopes, work, callStack, contextStack, astatus, aerror, acalls, astart, alog>>
svars == <<arr, idx, charArr, emitted, curLine, curColumn, startOfToken, sstatus, scalls>>
vars == <<pvars, avars, svars>>

(***************************************************************************)
(* Bounds of the model.                                                    *)
(***************************************************************************)
MaxParseCalls == 2      \* parse calls per process
MaxAnalyzeCalls == 2    \* analyze calls per process
MaxTokenizerCalls == 2  \* tokenizer calls per process
MaxEofNodes == 2        \* "End of File" nodes a body may collect before the model stops following the loop

(***************************************************************************)
(* Tokens (Token interface of the tokenizer).                              *)
(***************************************************************************)
NoText == "<none>"

Undefined == [lexeme |-> "<undefined>", type |-> "<undefined>", line |-> 0, column |-> 0]

IsUndefined(tok) == tok.type = "<undefined>"

Tok(type, lexeme) == [type |-> type, lexeme |-> lexeme]

\* The scanner starts a new line after `;`, `{` and `}`; the column restarts at 1.
\* Every token is taken to be one column wide.
LineBreaks == {";", "{", "}"}

LineOf(seq, i) == 1 + Cardinality({j \in 1..(i - 1) : seq[j].lexeme \in LineBreaks})

ColumnOf(seq, i) ==
    LET breaks == {j \in 1..(i - 1) : seq[j].lexeme \in LineBreaks}
        last == IF breaks = {} THEN 0 ELSE CHOOSE j \in breaks : \A k \in breaks : k <= j
    IN i - last

addToken(seq) ==
    [i \in 1..Len(seq) |->
        [lexeme |-> seq[i].lexeme, type |-> seq[i].type,
         line |-> LineOf(seq, i), column |-> ColumnOf(seq, i)]]

(***************************************************************************)
(* parser.ts: binding powers, scaled by 10 to stay in the integers.        *)
(***************************************************************************)
BinaryOperators == {"||", "&&", "==", "!=", "<", "<=", ">", ">=", "+", "-", "*", "/", "%", "^"}

BINDING_POWER ==
    [op \in BinaryOperators \cup {"++", "--"} |->
        CASE op = "||" -> <<0, 1>>
          [] op = "&&" -> <<10, 11>>
          [] op \in {"==", "!="} -> <<20, 21>>
          [] op \in {"<", "<=", ">", ">="} -> <<30, 31>>
          [] op \in {"+", "-"} -> <<40, 41>>
          [] op \in {"*", "/", "%"} -> <<50, 51>>
          [] op = "^" -> <<61, 60>>
          [] op \in {"++", "--"} -> <<70, 71>>]

\* A table whose operators all bind equally to the left
leftBPFlat(op) == IF op \in {"++", "--"} THEN 70 ELSE 0

leftBP(op) == BINDING_POWER[op][1]

\* A table whose right power is always above the left power
rightBPAbove(op) == BINDING_POWER[op][1] + 1

rightBP(op) == BINDING_POWER[op][2]

peek(toks, cur, offset) ==
    IF cur + offset + 1 \in 1..Len(toks) THEN toks[cur + offset + 1] ELSE Undefined

isType(word) == word \in {"int", "string", "float", "void", "boolean"}

(***************************************************************************)
(* Errors.  A thrown Error carries its message; the fields a message does  *)
(* not print are NoText / 0.                                               *)
(***************************************************************************)
NoError == [name |-> NoText, msg |-> NoText, expected |-> NoText, found |-> NoText, line |-> 0, column |-> 0]

TypeError ==
    [name |-> "TypeError", msg |-> "Cannot read properties of undefined",
     expected |-> NoText, found |-> NoText, line |-> 0, column |-> 0]

ExpectedError(expected, tok) ==
    [name |-> "Error", msg |-> "Expected", expected |-> expected,
     found |-> tok.lexeme, line |-> tok.line, column |-> tok.column]

EndOfInputError(expected) ==
    [name |-> "Error", msg |-> "Unexpected end of input", expected |-> expected,
     found |-> NoText, line |-> 0, column |-> 0]

UnexpectedTokenError(tok) ==
    [name |-> "Error", msg |-> "Unexpected token", expected |-> NoText,
     found |-> tok.lexeme, line |-> 0, column |-> 0]

(***************************************************************************)
(* AST nodes, with the field names the parser gives them.                  *)
(***************************************************************************)
NoNode == [type |-> "<none>"]

Literal(dataType, name) == [type |-> "Literal", dataType |-> dataType, name |-> name]

Identifier(name) == [type |-> "Identifier", name |-> name]

FunctionCall(name, args) == [type |-> "FunctionCall", name |-> name, arguments |-> args]

AssignmentExpression(name, value) ==
    [type |-> "AssignmentExpression", operator |-> "=", left |-> Identifier(name), right |-> value]

UnaryExpression(op, argument, prefix) ==
    [type |-> "UnaryExpression", operator |-> op, argument |-> argument, prefix |-> prefix]

BinaryExpression(op, left, right) ==
    [type |-> "BinaryExpression", operator |-> op, left |-> left, right |-> right]

(***************************************************************************)
(* expect: the outcome of expect(tokens, state, expectedType) at cursor    *)
(* cur: ok and the cursor after it, or the error thrown.                   *)
(***************************************************************************)
expect(toks, cur, expectedType) ==
    LET token == peek(toks, cur, 0)
    IN IF IsUndefined(token)
       THEN [ok |-> FALSE, cur |-> cur, err |-> EndOfInputError(expectedType)]
       ELSE IF token.lexeme # expectedType
       THEN [ok |-> FALSE, cur |-> cur, err |-> ExpectedError(expectedType, token)]
       ELSE [ok |-> TRUE, cur |-> cur + 1, err |-> NoError]

(***************************************************************************)
(* parseExpression: the Pratt parser.  The result is                       *)
(* [ok, node, cur, err]: the node and the cursor after it, or the error    *)
(* thrown and the cursor at the throw.                                     *)
(***************************************************************************)
ExprOk(node, cur) == [ok |-> TRUE, node |-> node, cur |-> cur, err |-> NoError]

ExprFail(err, cur) == [ok |-> FALSE, node |-> NoNode, cur |-> cur, err |-> err]

RECURSIVE parseExpression(_, _, _)
RECURSIVE parseArguments(_, _, _)
RECURSIVE parseInfix(_, _, _, _)

\* parser.ts:383-386, the argument loop of a call
parseArguments(toks, cur, args) ==
    IF peek(toks, cur, 0).lexeme = ")"
    THEN [ok |-> TRUE, node |-> args, cur |-> cur, err |-> NoError]
    ELSE LET r == parseExpression(toks, cur, 0)
         IN IF ~r.ok THEN r
            ELSE LET next == IF peek(toks, r.cur, 0).lexeme = "," THEN r.cur + 1 ELSE r.cur
                 IN parseArguments(toks, next, Append(args, r.node))

\* parser.ts:431-461, the left-denotation loop
parseInfix(toks, cur, left, minBP) ==
    LET op == peek(toks, cur, 0)
    IN IF IsUndefined(op) \/ op.lexeme \notin DOMAIN BINDING_POWER
       THEN ExprOk(left, cur)
       ELSE IF op.lexeme \in {"++", "--"}
       THEN parseInfix(toks, cur + 1, UnaryExpression(op.lexeme, left, FALSE), minBP)
       ELSE IF leftBP(op.lexeme) < minBP
       THEN ExprOk(left, cur)
       ELSE LET right == parseExpression(toks, cur + 1, rightBP(op.lexeme))
            IN IF ~right.ok THEN right
               ELSE parseInfix(toks, right.cur,
                               BinaryExpression(op.lexeme, left, right.node), minBP)

\* parser.ts:368-429, the null denotation, followed by the infix loop
parseExpression(toks, cur0, minBP) ==
    LET token == peek(toks, cur0, 0)
        cur == cur0 + 1
    IN IF IsUndefined(token) THEN ExprFail(TypeError, cur)
       ELSE IF isType(token.type)
       THEN parseInfix(toks, cur, Literal(token.type, token.lexeme), minBP)
       ELSE IF token.type = "identifier"
       THEN IF peek(toks, cur, 0).lexeme = "("
            THEN LET a == parseArguments(toks, cur + 1, <<>>)
                 IN IF ~a.ok THEN ExprFail(a.err, a.cur)
                    ELSE LET e == expect(toks, a.cur, ")")
                         IN IF ~e.ok THEN ExprFail(e.err, e.cur)
                            ELSE parseInfix(toks, e.cur, FunctionCall(token.lexeme, a.node), minBP)
            ELSE IF peek(toks, cur, 0).lexeme = "="
            THEN LET value == parseExpression(toks, cur + 1, 0)
                 IN IF ~value.ok THEN value
                    ELSE parseInfix(toks, value.cur,
                                    AssignmentExpression(token.lexeme, value.node), minBP)
            ELSE parseInfix(toks, cur, Identifier(token.lexeme), minBP)
       ELSE IF token.lexeme = "("
       THEN LET inner == parseExpression(toks, cur, 0)
            IN IF ~inner.ok THEN inner
               ELSE LET e == expect(toks, inner.cur, ")")
                    IN IF ~e.ok THEN ExprFail(e.err, e.cur)
                       ELSE parseInfix(toks, e.cur, inner.node, minBP)
       ELSE IF token.type = "operator" /\ token.lexeme \in {"++", "--"}
       THEN LET argument == parseExpression(toks, cur, rightBP(token.lexeme))
            IN IF ~argument.ok THEN argument
               ELSE parseInfix(toks, argument.cur,
                               UnaryExpression(token.lexeme, argument.node, TRUE), minBP)
       ELSE ExprFail(UnexpectedTokenError(token), cur)

(***************************************************************************)
(* The statement grammar as a machine.  Every activation of a parse        *)
(* function is a frame [fn, items, acc, ret]: items is what is left of the *)
(* function body, one entry per call it makes (expect, parseExpression,    *)
(* parseBody, ...), acc holds its local variables, and the value it        *)
(* returns goes into its caller's frame.                                   *)
(***************************************************************************)
Item(op, a, b) == [op |-> op, a |-> a, b |-> b]

E(lexeme) == Item("expect", lexeme, NoText)         \* expect(tokens, state, lexeme)

X(field) == Item("expr", field, NoText)             \* field = parseExpression(tokens, state)

B(field) == Item("body", field, NoText)             \* field = parseBody(tokens, state)

V(field) == Item("varDecl", field, NoText)          \* field = parseVariableDeclaration(tokens, state)

CT(field, what) == Item("consumeType", field, what) \* consume, then the isType check

CN(field, what) == Item("consumeName", field, what) \* consume, then the identifier check

Frame(fn, items, acc) == [fn |-> fn, items |-> items, acc |-> acc]

parseIfStatementItems ==
    <<E("if"), E("("), X("condition"), E(")"), E("{"), B("body"), E("}"),
      Item("elseIfLoop", NoText, NoText), Item("else", NoText, NoText)>>

elseIfItems ==
    <<E("else if"), E("("), X("elseIfCondition"), E(")"), E("{"), B("elseIfBody"), E("}"),
      Item("pushElseIf", NoText, NoText), Item("elseIfLoop", NoText, NoText)>>

elseItems == <<E("else"), E("{"), B("else"), E("}")>>

parseWhileLoopItems ==
    <<E("while"), E("("), X("condition"), E(")"), E("{"), B("body"), E("}")>>

parseForLoopItems ==
    <<E("for"), E("("), V("initialization"), X("condition"), E(";"), X("increment"), E(")"),
      E("{"), B("body"), E("}")>>

parseControlFlowItems == <<Item("flow", NoText, NoText), E(";")>>

parseReturnItems == <<E("return"), X("value"), E(";")>>

parseFunctionDeclarationItems ==
    <<CT("returnType", "a valid return type"), E("function"), CN("name", "a function name"),
      E("("), Item("params", NoText, NoText), E(")"), E("{"), B("body"), E("}")>>

parseVariableDeclarationItems ==
    <<CT("dataType", "a valid variable type"), CN("name", "a variable name"),
      E("="), X("value"), E(";")>>

expressionStatementItems == <<X("expression"), E(";")>>

EndOfFile == [type |-> "End of File"]

\* The node a parse function returns once its body is done.
returnNode(fn, acc) ==
    CASE fn = "parseIfStatement" ->
            [type |-> "IfStatement", condition |-> acc.condition, body |-> acc.body,
             elseIf |-> acc.elseIf, else |-> acc.else]
      [] fn = "parseWhileLoop" ->
            [type |-> "WhileLoop", condition |-> acc.condition, body |-> acc.body]
      [] fn = "parseForLoop" ->
            [type |-> "ForLoop", initialization |-> acc.initialization,
             condition |-> acc.condition, increment |-> acc.increment, body |-> acc.body]
      [] fn = "parseControlFlow" ->
            [type |-> "ControlFlowStatement", flowType |-> acc.flowType]
      [] fn = "parseReturn" ->
            [type |-> "ReturnStatement", value |-> acc.value]
      [] fn = "parseFunctionDeclaration" ->
            [type |-> "FunctionDeclaration", returnType |-> acc.returnType, name |-> acc.name,
             parameters |-> acc.parameters, body |-> acc.body]
      [] fn = "parseVariableDeclaration" ->
            [type |-> "VariableDeclaration", dataType |-> acc.dataType, name |-> acc.name,
             value |-> acc.value]
      [] fn = "parseStatement" ->
            [type |-> "ExpressionStatement", expression |-> acc.expression]

Top == pstack[Len(pstack)]

Running == pstatus = "running" /\ pstack # <<>>

HasItem(op) == Running /\ Top.items # <<>> /\ Head(Top.items).op = op

\* The stack after the top frame returns `value` to its caller: a body loop
\* (parse, parseBody) pushes it onto its array, any other caller stores it
\* in the field its pending call item names.
returnTo(stack, value) ==
    LET rest == SubSeq(stack, 1, Len(stack) - 1)
        caller == rest[Len(rest)]
        updated ==
            IF caller.fn \in {"parse", "parseBody"}
            THEN [caller EXCEPT !.acc = [caller.acc EXCEPT !.body = Append(@, value)]]
            ELSE [caller EXCEPT !.items = Tail(@),
                                !.acc = (Head(caller.items).a :> value) @@ @]
    IN [rest EXCEPT ![Len(rest)] = updated]

setTop(frame) == [pstack EXCEPT ![Len(pstack)] = frame]

stepTop(field, value) ==
    setTop([Top EXCEPT !.items = Tail(@), !.acc = (field :> value) @@ @])

throw(err, cur) ==
    /\ pstatus' = "failed"
    /\ perror' = err
    /\ current' = cur
    /\ pstack' = <<>>
    /\ UNCHANGED <<tokens, presult, pcalls, pprev>>

NoExpr == [start |-> -1, ok |-> FALSE, node |-> NoNode, end |-> -1]

(***************************************************************************)
(* parse (parser.ts:64-81).  The cursor is the module-level state.current: *)
(* a call starts wherever the previous call left it.                       *)
(***************************************************************************)
ParseCall(toks) ==
    /\ pstatus \in {"idle", "returned", "failed"}
    /\ pcalls < MaxParseCalls
    /\ tokens' = toks
    /\ pcalls' = pcalls + 1
    /\ pprev' = [tokens |-> tokens, status |-> pstatus, result |-> presult, calls |-> pcalls]
    /\ lastExpr' = NoExpr
    /\ presult' = NoNode
    /\ UNCHANGED <<current, avars, svars>>
    /\ IF Len(toks) = 0
       THEN \* tokens[tokens.length - 1].line reads a property of undefined
            pstatus' = "failed" /\ perror' = TypeError /\ pstack' = <<>>
       ELSE /\ pstatus' = "running"
            /\ perror' = NoError
            /\ pstack' = <<Frame("parse", <<>>,
                                 [body |-> <<>>, first |-> TRUE, end |-> toks[Len(toks)].line])>>

\* The loop test of parser.ts:75-78: i starts at state.current; after every
\* statement `i = state.current` is followed by the loop's own `i++`.
\* A loop that starts one token before state.current
parseLoopIndexBefore == IF Top.acc.first THEN current - 1 ELSE current + 1

parseLoopIndex == IF Top.acc.first THEN current ELSE current + 1

ParseLoop ==
    /\ Running /\ Top.fn = "parse"
    /\ parseLoopIndex < Len(tokens)
    /\ pstack' = Append(setTop([Top EXCEPT !.acc.first = FALSE]),
                        Frame("parseStatement", <<Item("dispatch", NoText, NoText)>>, <<>>))
    /\ UNCHANGED <<tokens, current, pstatus, presult, perror, pcalls, pprev, lastExpr, avars, svars>>

ParseReturn ==
    /\ Running /\ Top.fn = "parse"
    /\ ~(parseLoopIndex < Len(tokens))
    /\ pstatus' = "returned"
    /\ presult' = [type |-> "Program", start |-> 1, end |-> Top.acc.end, body |-> Top.acc.body]
    /\ pstack' = <<>>
    /\ UNCHANGED <<tokens, current, perror, pcalls, pprev, lastExpr, avars, svars>>

(***************************************************************************)
(* parseStatement (parser.ts:87-115): the dispatch on the current token.   *)
(***************************************************************************)
statementParser(token) ==
    CASE token.type = "keyword" /\ token.lexeme = "if" ->
            Frame("parseIfStatement", parseIfStatementItems, [elseIf |-> <<>>, else |-> <<>>])
      [] token.type = "keyword" /\ token.lexeme = "while" ->
            Frame("parseWhileLoop", parseWhileLoopItems, <<>>)
      [] token.type = "keyword" /\ token.lexeme = "for" ->
            Frame("parseForLoop", parseForLoopItems, <<>>)
      [] token.type = "keyword" /\ token.lexeme = "return" ->
            Frame("parseReturn", parseReturnItems, <<>>)
      [] token.type = "keyword" /\ token.lexeme \in {"break", "continue"} ->
            Frame("parseControlFlow", parseControlFlowItems, <<>>)
      [] token.type = "type" /\ isType(token.lexeme) ->
            IF peek(tokens, current, 1).type = "keyword"
               /\ peek(tokens, current, 1).lexeme = "function"
            THEN Frame("parseFunctionDeclaration", parseFunctionDeclarationItems,
                       [parameters |-> <<>>])
            ELSE Frame("parseVariableDeclaration", parseVariableDeclarationItems, <<>>)
      [] OTHER -> Frame("parseStatement", expressionStatementItems, <<>>)

ParseStatement ==
    /\ HasItem("dispatch")
    /\ LET token == peek(tokens, current, 0)
       IN IF IsUndefined(token)
          THEN \* `if(!token) return {type: "End of File"}`: nothing is consumed
               /\ pstack' = returnTo(pstack, EndOfFile)
               /\ UNCHANGED <<tokens, current, pstatus, presult, perror, pcalls, pprev>>
          ELSE IF token.type = "type" /\ isType(token.lexeme)
                  /\ IsUndefined(peek(tokens, current, 1))
          THEN \* next.type with next undefined
               throw(TypeError, current)
          ELSE /\ pstack' = setTop(statementParser(token))
               /\ UNCHANGED <<tokens, current, pstatus, presult, perror, pcalls, pprev>>
    /\ UNCHANGED <<lastExpr, avars, svars>>

(***************************************************************************)
(* parseBody (parser.ts:355-361).                                          *)
(***************************************************************************)
eofNodes(body) == Cardinality({i \in 1..Len(body) : body[i] = EndOfFile})

BodyCall ==
    /\ HasItem("body")
    /\ pstack' = Append(pstack, Frame("parseBody", <<>>, [body |-> <<>>]))
    /\ UNCHANGED <<tokens, current, pstatus, presult, perror, pcalls, pprev, lastExpr, avars, svars>>

ParseBodyLoop ==
    /\ Running /\ Top.fn = "parseBody"
    /\ peek(tokens, current, 0).lexeme # "}"
    /\ eofNodes(Top.acc.body) < MaxEofNodes
    /\ pstack' = Append(pstack, Frame("parseStatement", <<Item("dispatch", NoText, NoText)>>, <<>>))
    /\ UNCHANGED <<tokens, current, pstatus, presult, perror, pcalls, pprev, lastExpr, avars, svars>>

ParseBodyReturn ==
    /\ Running /\ Top.fn = "parseBody"
    /\ peek(tokens, current, 0).lexeme = "}"
    /\ pstack' = returnTo(pstack, Top.acc.body)
    /\ UNCHANGED <<tokens, current, pstatus, presult, perror, pcalls, pprev, lastExpr, avars, svars>>

(***************************************************************************)
(* The calls a statement parser makes.                                     *)
(***************************************************************************)
Expect ==
    /\ HasItem("expect")
    /\ LET e == expect(tokens, current, Head(Top.items).a)
       IN IF e.ok
          THEN /\ current' = e.cur
               /\ pstack' = setTop([Top EXCEPT !.items = Tail(@)])
               /\ UNCHANGED <<tokens, pstatus, presult, perror, pcalls, pprev>>
          ELSE throw(e.err, e.cur)
    /\ UNCHANGED <<lastExpr, avars, svars>>

ParseExpression ==
    /\ HasItem("expr")
    /\ LET r == parseExpression(tokens, current, 0)
       IN /\ lastExpr' = [start |-> current, ok |-> r.ok, node |-> r.node, end |-> r.cur]
          /\ IF r.ok
             THEN /\ current' = r.cur
                  /\ pstack' = stepTop(Head(Top.items).a, r.node)
                  /\ UNCHANGED <<tokens, pstatus, presult, perror, pcalls, pprev>>
             ELSE throw(r.err, r.cur)
    /\ UNCHANGED <<avars, svars>>

VariableDeclarationCall ==
    /\ HasItem("varDecl")
    /\ pstack' = Append(pstack, Frame("parseVariableDeclaration", parseVariableDeclarationItems, <<>>))
    /\ UNCHANGED <<tokens, current, pstatus, presult, perror, pcalls, pprev, lastExpr, avars, svars>>

\* consume() followed by `if(!isType(t.lexeme)) throw` (parser.ts:297-298, 337-338)
ConsumeType ==
    /\ HasItem("consumeType")
    /\ LET token == peek(tokens, current, 0)
       IN IF IsUndefined(token) THEN throw(TypeError, current + 1)
          ELSE IF ~isType(token.lexeme)
          THEN throw(ExpectedError(Head(Top.items).b, token), current + 1)
          ELSE /\ current' = current + 1
               /\ pstack' = stepTop(Head(Top.items).a, token.lexeme)
               /\ UNCHANGED <<tokens, pstatus, presult, perror, pcalls, pprev>>
    /\ UNCHANGED <<lastExpr, avars, svars>>

\* consume() followed by `if(t.type !== "identifier") throw` (parser.ts:300-301, 339-340)
ConsumeName ==
    /\ HasItem("consumeName")
    /\ LET token == peek(tokens, current, 0)
       IN IF IsUndefined(token) THEN throw(TypeError, current + 1)
          ELSE IF token.type # "identifier"
          THEN throw(ExpectedError(Head(Top.items).b, token), current + 1)
          ELSE /\ current' = current + 1
               /\ pstack' = stepTop(Head(Top.items).a, token.lexeme)
               /\ UNCHANGED <<tokens, pstatus, presult, perror, pcalls, pprev>>
    /\ UNCHANGED <<lastExpr, avars, svars>>

\* One turn of the parameter loop of parseFunctionDeclaration (parser.ts:306-315)
Parameters ==
    /\ HasItem("params")
    /\ LET paramType == peek(tokens, current, 0)
           paramName == peek(tokens, current, 1)
       IN IF paramType.lexeme = ")"
          THEN /\ pstack' = setTop([Top EXCEPT !.items = Tail(@)])
               /\ UNCHANGED <<tokens, current, pstatus, presult, perror, pcalls, pprev>>
          ELSE IF IsUndefined(paramType) THEN throw(TypeError, current + 1)
          ELSE IF ~isType(paramType.lexeme)
          THEN throw(ExpectedError("a valid parameter type", paramType), current + 1)
          ELSE IF IsUndefined(paramName) THEN throw(TypeError, current + 2)
          ELSE IF paramName.type # "identifier"
          THEN throw(ExpectedError("a parameter name", paramName), current + 2)
          ELSE /\ current' = IF peek(tokens, current, 2).lexeme = "," THEN current + 3 ELSE current + 2
               /\ pstack' = setTop([Top EXCEPT !.acc.parameters =
                        Append(@, [dataType |-> paramType.lexeme, name |-> paramName.lexeme])])
               /\ UNCHANGED <<tokens, pstatus, presult, perror, pcalls, pprev>>
    /\ UNCHANGED <<lastExpr, avars, svars>>

\* parseControlFlow (parser.ts:268-269): expect the lexeme just peeked
ControlFlow ==
    /\ HasItem("flow")
    /\ current' = current + 1
    /\ pstack' = stepTop("flowType", peek(tokens, current, 0).lexeme)
    /\ UNCHANGED <<tokens, pstatus, presult, perror, pcalls, pprev, lastExpr, avars, svars>>

\* The tests of the else-if loop and of the else clause (parser.ts:175, 194)
ElseIfLoop ==
    /\ HasItem("elseIfLoop")
    /\ pstack' = setTop([Top EXCEPT !.items =
            IF peek(tokens, current, 0).lexeme = "else if" THEN elseIfItems \o Tail(@) ELSE Tail(@)])
    /\ UNCHANGED <<tokens, current, pstatus, presult, perror, pcalls, pprev, lastExpr, avars, svars>>

PushElseIf ==
    /\ HasItem("pushElseIf")
    /\ pstack' = setTop([Top EXCEPT !.items = Tail(@),
                                    !.acc.elseIf = Append(@, [condition |-> Top.acc.elseIfCondition,
                                                              body |-> Top.acc.elseIfBody])])
    /\ UNCHANGED <<tokens, current, pstatus, presult, perror, pcalls, pprev, lastExpr, avars, svars>>

Else ==
    /\ HasItem("else")
    /\ pstack' = setTop([Top EXCEPT !.items =
            IF peek(tokens, current, 0).lexeme = "else" THEN elseItems \o Tail(@) ELSE Tail(@)])
    /\ UNCHANGED <<tokens, current, pstatus, presult, perror, pcalls, pprev, lastExpr, avars, svars>>

\* A statement parser reaches its return statement.
ReturnNode ==
    /\ Running /\ Top.fn \notin {"parse", "parseBody"} /\ Top.items = <<>>
    /\ pstack' = returnTo(pstack, returnNode(Top.fn, Top.acc))
    /\ UNCHANGED <<tokens, current, pstatus, presult, perror, pcalls, pprev, lastExpr, avars, svars>>

(***************************************************************************)
(* Token sequences given to parse.                                         *)
(***************************************************************************)
kw(lexeme) == Tok("keyword", lexeme)

ty(lexeme) == Tok("type", lexeme)

id(lexeme) == Tok("identifier", lexeme)

op(lexeme) == Tok("operator", lexeme)

num(lexeme) == Tok("int", lexeme)

bool(lexeme) == Tok("boolean", lexeme)

str(lexeme) == Tok("string", lexeme)

LP == Tok("parenthesis", "(")

RP == Tok("parenthesis", ")")

LB == Tok("brackets", "{")

RB == Tok("brackets", "}")

SEMI == Tok("punctuation", ";")

COMMA == Tok("punctuation", ",")

SourcePrograms ==
    << \* int x = 1;
       <<ty("int"), id("x"), op("="), num("1"), SEMI>>,
       \* int function f(int a, int b) { return a + b; }
       <<ty("int"), kw("function"), id("f"), LP, ty("int"), id("a"), COMMA, ty("int"), id("b"), RP,
         LB, kw("return"), id("a"), op("+"), id("b"), SEMI, RB>>,
       \* if (x < 1) { x = 2; } else if (x > 3) { f(x); } else { x++; }
       <<kw("if"), LP, id("x"), op("<"), num("1"), RP, LB, id("x"), op("="), num("2"), SEMI, RB,
         kw("else if"), LP, id("x"), op(">"), num("3"), RP, LB, id("f"), LP, id("x"), RP, SEMI, RB,
         kw("else"), LB, id("x"), op("++"), SEMI, RB>>,
       \* while (true) { break; }
       <<kw("while"), LP, bool("true"), RP, LB, kw("break"), SEMI, RB>>,
       \* for (int i = 0; i < 3; i++) { continue; }
       <<kw("for"), LP, ty("int"), id("i"), op("="), num("0"), SEMI, id("i"), op("<"), num("3"), SEMI,
         id("i"), op("++"), RP, LB, kw("continue"), SEMI, RB>>,
       \* f(1, g(2)); --x;
       <<id("f"), LP, num("1"), COMMA, id("g"), LP, num("2"), RP, RP, SEMI, op("--"), id("x"), SEMI>>,
       \* x = (1 + 2) * 3; ;
       <<id("x"), op("="), LP, num("1"), op("+"), num("2"), RP, op("*"), num("3"), SEMI, SEMI>>,
       \* int x = 1; int y = 2;
       <<ty("int"), id("x"), op("="), num("1"), SEMI, ty("int"), id("y"), op("="), num("2"), SEMI>>,
       \* char c = 1;   void function 1() {}   int function f(x) {}
       <<ty("char"), id("c"), op("="), num("1"), SEMI>>,
       <<ty("void"), kw("function"), num("1"), LP, RP, LB, RB>>,
       <<ty("int"), kw("function"), id("f"), LP, id("x"), RP, LB, RB>>,
       <<ty("int"), kw("function"), id("f"), LP, ty("int"), num("1"), RP, LB, RB>>,
       <<ty("int"), num("1"), op("="), num("1"), SEMI>>,
       \* if (true) { } else if (1) { y = 2; }
       <<kw("if"), LP, bool("true"), RP, LB, RB,
         kw("else if"), LP, num("1"), RP, LB, id("y"), op("="), num("2"), SEMI, RB>>,
       \* int function f() { return g(); } int function g() { return 1; }
       <<ty("int"), kw("function"), id("f"), LP, RP, LB, kw("return"), id("g"), LP, RP, SEMI, RB,
         ty("int"), kw("function"), id("g"), LP, RP, LB, kw("return"), num("1"), SEMI, RB>>,
       \* break;
       <<kw("break"), SEMI>> >>

\* Every source program and every non-empty prefix of one (the input cut short).
ProgramInputs ==
    {SubSeq(SourcePrograms[p], 1, n) : <<p, n>> \in
        {<<p, n>> \in (DOMAIN SourcePrograms) \X (1..31) : n <= Len(SourcePrograms[p])}}

\* `1 op1 b op2 3;` for every pair of binary operators
ExpressionInputs ==
    {<<num("1"), op(o[1]), id("b"), op(o[2]), num("3"), SEMI>> : o \in BinaryOperators \X BinaryOperators}

ParseInputs == {addToken(src) : src \in ProgramInputs \cup ExpressionInputs}

\* What a later parse call of the same process is given: the same tokens
\* again, or one of these.
LaterInputs ==
    {addToken(SourcePrograms[1]), addToken(SourcePrograms[4]), addToken(SourcePrograms[8]), <<>>}

(***************************************************************************)
(* The state after the modules are loaded.                                 *)
(***************************************************************************)
ParserInit ==
    /\ tokens = <<>>
    /\ current = 0
    /\ pstack = <<>>
    /\ pstatus = "idle"
    /\ presult = NoNode
    /\ perror = NoError
    /\ pcalls = 0
    /\ pprev = [tokens |-> <<>>, status |-> "idle", result |-> NoNode, calls |-> 0]
    /\ lastExpr = NoExpr

AnalyzerInit ==
    /\ ast = NoNode
    /\ scopes = <<>>
    /\ work = <<>>
    /\ callStack = <<>>
    /\ contextStack = <<>>
    /\ astatus = "idle"
    /\ aerror = NoError
    /\ acalls = 0
    /\ astart = [ast |-> NoNode, callStack |-> 0, contextStack |-> 0]
    /\ alog = <<>>

(***************************************************************************)
(* The tokenizer (src/unnamed/part_001).  A source is a sequence of        *)
(* one-character strings; after the pre-processing loop an element of arr  *)
(* may hold two characters.                                                *)
(***************************************************************************)
Letters ==
    {"a", "b", "c", "d", "e", "f", "g", "h", "i", "j", "k", "l", "m", "n", "o", "p", "q",
     "r", "s", "t", "u", "v", "w", "x", "y", "z", "A", "B", "X", "Z"}

Digits == {"0", "1", "2", "3", "4", "5", "6", "7", "8", "9"}

isWhiteSpace(char) == char \in {" ", "\t", "\n"}

isDigit(char) == char \in Digits

isLetter(char) == char \in Letters

isOperator(symbol) ==
    symbol \in {"==", "!=", "<=", ">=", "+=", "-=", "*=", "/=", "%=", "&&", "||", "%", "+", "-",
                "*", "/", "=", "<", ">", "++", "--", "!", "^"}

isPunctuation(symbol) == symbol \in {";", ","}

isParenthesis(symbol) == symbol \in {"(", ")"}

isBrackets(symbol) == symbol \in {"{", "}"}

\* arr[i] += arr[i + 1]; arr.splice(i + 1, 1)      (i is 1-based here)
fusePair(a, i) ==
    [k \in 1..(Len(a) - 1) |-> IF k < i THEN a[k] ELSE IF k = i THEN a[i] \o a[i + 1] ELSE a[k + 1]]

\* The switch of the pre-processing loop: is arr[i] joined with arr[i + 1]?
fuses(a, i) ==
    /\ i + 1 <= Len(a)
    /\ \/ a[i] = "=" /\ a[i + 1] \in {"=", "!", "<", ">", "+", "-", "*", "/"}
       \/ a[i] \in {"&", "|", "+", "-"} /\ a[i + 1] = a[i]

\* The pre-processing loop from position i on
RECURSIVE preProcess(_, _)
preProcess(a, i) ==
    IF i > Len(a) THEN a
    ELSE IF fuses(a, i) THEN preProcess(fusePair(a, i), i + 1)
    ELSE preProcess(a, i + 1)

\* charArr.join("")
RECURSIVE join(_)
join(chars) == IF chars = <<>> THEN "" ELSE Head(chars) \o join(Tail(chars))

Token(lexeme, type, ln, col) == [lexeme |-> lexeme, type |-> type, line |-> ln, column |-> col]

Keywords == {"function", "return", "if", "else", "for", "while", "break", "continue"}

Types == {"int", "string", "boolean", "float", "char", "void", "null"}

\* /^[A-Za-z_][A-Za-z0-9_]*$/
isIdentifier(chars) ==
    /\ chars # <<>>
    /\ isLetter(chars[1]) \/ chars[1] = "_"
    /\ \A k \in DOMAIN chars : isLetter(chars[k]) \/ isDigit(chars[k]) \/ chars[k] = "_"

\* /^-?\d+$/
isInteger(chars) ==
    LET digits == IF chars # <<>> /\ chars[1] = "-" THEN Tail(chars) ELSE chars
    IN digits # <<>> /\ \A k \in DOMAIN digits : isDigit(digits[k])

\* finalizeToken: the token list after the characters in chars were
\* categorized (charArr is emptied by the caller)
finalizeToken(toks, chars, ln, start) ==
    LET token == join(chars)
    IN IF toks # <<>> /\ toks[Len(toks)].lexeme = "else" /\ token = "if"
       THEN [toks EXCEPT ![Len(toks)].lexeme = "else if"]
       ELSE IF token \in Keywords THEN Append(toks, Token(token, "keyword", ln, start))
       ELSE IF token \in Types THEN Append(toks, Token(token, "type", ln, start))
       ELSE IF token \in {"true", "false"} THEN Append(toks, Token(token, "boolean", ln, start))
       ELSE IF isIdentifier(chars) THEN Append(toks, Token(token, "identifier", ln, start))
       ELSE IF isInteger(chars) THEN Append(toks, Token(token, "int", ln, start))
       ELSE toks

\* getString: the index of the closing quote (or the length of arr) when
\* the opening quote is at 0-based index i
RECURSIVE closingQuote(_, _)
closingQuote(a, i) ==
    IF i < Len(a) /\ a[i + 1] # "\"" THEN closingQuote(a, i + 1) ELSE i

\* The string value: the quote, the characters up to the closing one, a quote
getString(a, i) ==
    LET close == closingQuote(a, i + 1)
    IN "\"" \o join(SubSeq(a, i + 2, close)) \o "\""

currentToken == arr[idx + 1]

Scanning == sstatus = "running" /\ idx < Len(arr)

\* updateLineAndColumn(); i++      where the loop body left i at index `at`
Advance(at) ==
    /\ idx' = at + 1
    /\ IF currentToken \in {";", "{", "}"}
       THEN curLine' = curLine + 1 /\ curColumn' = 1
       ELSE curLine' = curLine /\ curColumn' = curColumn + 1

\* tokenizer(pathToFile): the file is read and its operators are fused; the
\* module-level state is what the previous call left
TokenizerCall(source) ==
    /\ sstatus \in {"idle", "returned"}
    /\ scalls < MaxTokenizerCalls
    /\ scalls' = scalls + 1
    /\ arr' = preProcess(source, 1)
    /\ sstatus' = "running"
    /\ UNCHANGED <<idx, charArr, emitted, curLine, curColumn, startOfToken, pvars, avars>>

ScanWhiteSpace ==
    /\ Scanning /\ isWhiteSpace(currentToken)
    /\ emitted' = finalizeToken(emitted, charArr, curLine, startOfToken)
    /\ charArr' = <<>>
    /\ Advance(idx)
    /\ UNCHANGED <<arr, startOfToken, sstatus, scalls, pvars, avars>>

\* startOrContinue, for a digit, a letter or an underscore
StartOrContinue ==
    /\ Scanning /\ ~isWhiteSpace(currentToken)
    /\ isDigit(currentToken) \/ isLetter(currentToken) \/ currentToken = "_"
    /\ startOfToken' = IF charArr = <<>> THEN curColumn ELSE startOfToken
    /\ charArr' = Append(charArr, currentToken)
    /\ Advance(idx)
    /\ UNCHANGED <<arr, emitted, sstatus, scalls, pvars, avars>>

\* The type of the one-element token the main loop adds for symbol, if any
symbolType(symbol) ==
    IF isOperator(symbol) THEN "operator"
    ELSE IF isParenthesis(symbol) THEN "parenthesis"
    ELSE IF isPunctuation(symbol) THEN "punctuation"
    ELSE IF isBrackets(symbol) THEN "brackets"
    ELSE NoText

isWordCharacter(char) == isWhiteSpace(char) \/ isDigit(char) \/ isLetter(char) \/ char = "_"

\* finalizeToken(); addToken(currentToken, type, line, column)
addSymbol(type) ==
    /\ emitted' = Append(finalizeToken(emitted, charArr, curLine, startOfToken),
                         Token(currentToken, type, curLine, curColumn))
    /\ charArr' = <<>>
    /\ Advance(idx)
    /\ UNCHANGED <<arr, startOfToken, sstatus, scalls, pvars, avars>>

ScanOperator ==
    /\ Scanning /\ ~isWordCharacter(currentToken)
    /\ symbolType(currentToken) = "operator"
    /\ addSymbol("operator")

ScanParenthesis ==
    /\ Scanning /\ ~isWordCharacter(currentToken)
    /\ symbolType(currentToken) = "parenthesis"
    /\ addSymbol("parenthesis")

ScanPunctuation ==
    /\ Scanning /\ ~isWordCharacter(currentToken)
    /\ symbolType(currentToken) = "punctuation"
    /\ addSymbol("punctuation")

ScanBrackets ==
    /\ Scanning /\ ~isWordCharacter(currentToken)
    /\ symbolType(currentToken) = "brackets"
    /\ addSymbol("brackets")

ScanString ==
    /\ Scanning /\ ~isWordCharacter(currentToken)
    /\ symbolType(currentToken) = NoText /\ currentToken = "\""
    /\ emitted' = Append(emitted, Token(getString(arr, idx), "string", curLine, curColumn))
    /\ Advance(closingQuote(arr, idx + 1))
    /\ UNCHANGED <<arr, charArr, startOfToken, sstatus, scalls, pvars, avars>>

\* No branch of the main loop takes the element: nothing is added
ScanNothing ==
    /\ Scanning /\ ~isWordCharacter(currentToken)
    /\ symbolType(currentToken) = NoText /\ currentToken # "\""
    /\ Advance(idx)
    /\ UNCHANGED <<arr, charArr, emitted, startOfToken, sstatus, scalls, pvars, avars>>

TokenizerReturn ==
    /\ sstatus = "running" /\ ~(idx < Len(arr))
    /\ sstatus' = "returned"
    /\ UNCHANGED <<arr, idx, charArr, emitted, curLine, curColumn, startOfToken, scalls, pvars, avars>>

\* --- sources ---
OperatorCharacters == {"=", "!", "<", ">", "+", "-", "*", "/", "&", "|"}

\* a<c1><c2>b;
OperatorSource(c1, c2) == <<"a", c1, c2, "b", ";">>

OperatorSources == {OperatorSource(c1, c2) : c1 \in OperatorCharacters, c2 \in OperatorCharacters}

HandWrittenSources ==
    {<<"i", "n", "t", " ", "x", "_", "1", " ", "=", " ", "1", "2", ";">>,
     <<"i", "f", "(", "a", ")", "{", "}", " ", "e", "l", "s", "e", " ", "i", "f", " ", "(", "b", ")", "{", "}">>,
     <<"s", " ", "=", " ", "\"", "h", "i", "\"", ";">>,
     <<"x", " ", "=", " ", "a", "#", "b", ";", "\n">>,
     <<"x", "=", "-", "1", ";">>,
     <<"i", "+", "+", ";">>}

Sources == OperatorSources \cup HandWrittenSources

LaterSources == {<<"x", ";">>, <<>>}

Tokenizer ==
    \/ /\ scalls = 0
       /\ \E source \in Sources : TokenizerCall(source)
    \/ /\ scalls > 0
       /\ \E source \in LaterSources : TokenizerCall(source)

TokenizerInit ==
    /\ arr = <<>>
    /\ idx = 0
    /\ charArr = <<>>
    /\ emitted = <<>>
    /\ curLine = 1
    /\ curColumn = 1
    /\ startOfToken = 1
    /\ sstatus = "idle"
    /\ scalls = 0

TokenizerNext ==
    \/ Tokenizer
    \/ ScanWhiteSpace
    \/ StartOrContinue
    \/ ScanOperator
    \/ ScanParenthesis
    \/ ScanPunctuation
    \/ ScanBrackets
    \/ ScanString
    \/ ScanNothing
    \/ TokenizerReturn

Init == ParserInit /\ AnalyzerInit /\ TokenizerInit

Parse ==
    \/ /\ pcalls = 0
       /\ \E toks \in ParseInputs : ParseCall(toks)
    \/ /\ pcalls > 0
       /\ \E toks \in LaterInputs \cup {tokens} : ParseCall(toks)

ParserNext ==
    \/ Parse
    \/ ParseLoop
    \/ ParseReturn
    \/ ParseStatement
    \/ BodyCall
    \/ ParseBodyLoop
    \/ ParseBodyReturn
    \/ Expect
    \/ ParseExpression
    \/ VariableDeclarationCall
    \/ ConsumeType
    \/ ConsumeName
    \/ Parameters
    \/ ControlFlow
    \/ ElseIfLoop
    \/ PushElseIf
    \/ Else
    \/ ReturnNode

ParserSpec == Init /\ [][ParserNext]_vars

(***************************************************************************)
(* semanticAnalysis.ts: scopes.  A Scope object is an entry of the arena   *)
(* `scopes`; a reference to it is its index, and parent = 0 is null.       *)
(* The Maps of a scope are functions from names.                           *)
(***************************************************************************)
Null == "<null>"

SemanticError(msg) ==
    [name |-> "Error", msg |-> msg, expected |-> NoText, found |-> NoText, line |-> 0, column |-> 0]

createScope(parent, name) ==
    [parent |-> parent, name |-> name, variables |-> <<>>, functions |-> <<>>]

\* A lookup that stops at the scope it is given
resolveVariableLocal(sc, scope, name) ==
    IF name \in DOMAIN sc[scope].variables
    THEN [ok |-> TRUE, type |-> sc[scope].variables[name], err |-> NoError]
    ELSE [ok |-> FALSE, type |-> Null, err |-> SemanticError("Variable is not defined.")]

RECURSIVE resolveVariable(_, _, _)
resolveVariable(sc, scope, name) ==
    IF name \in DOMAIN sc[scope].variables
    THEN [ok |-> TRUE, type |-> sc[scope].variables[name], err |-> NoError]
    ELSE IF sc[scope].parent # 0
    THEN resolveVariable(sc, sc[scope].parent, name)
    ELSE [ok |-> FALSE, type |-> Null, err |-> SemanticError("Variable is not defined.")]

NoFunction == [params |-> <<>>, returnType |-> Null]

\* A lookup that stops at the scope it is given
resolveFunctionLocal(sc, scope, name) ==
    IF name \in DOMAIN sc[scope].functions
    THEN [ok |-> TRUE, info |-> sc[scope].functions[name], err |-> NoError]
    ELSE [ok |-> FALSE, info |-> NoFunction, err |-> SemanticError("Function is not defined.")]

RECURSIVE resolveFunction(_, _, _)
resolveFunction(sc, scope, name) ==
    IF name \in DOMAIN sc[scope].functions
    THEN [ok |-> TRUE, info |-> sc[scope].functions[name], err |-> NoError]
    ELSE IF sc[scope].parent # 0
    THEN resolveFunction(sc, sc[scope].parent, name)
    ELSE [ok |-> FALSE, info |-> NoFunction, err |-> SemanticError("Function is not defined.")]

\* A declaration that replaces the entry of an already declared name
declareVariableOverwrite(sc, scope, name, type) ==
    [ok |-> TRUE, scopes |-> [sc EXCEPT ![scope].variables = (name :> type) @@ @], err |-> NoError]

\* declareVariable / declareFunction: the arena after the declaration, or the error
declareVariable(sc, scope, name, type) ==
    IF name \in DOMAIN sc[scope].variables
    THEN [ok |-> FALSE, scopes |-> sc, err |-> SemanticError("Variable already declared in this scope.")]
    ELSE [ok |-> TRUE, scopes |-> [sc EXCEPT ![scope].variables = (name :> type) @@ @], err |-> NoError]

declareFunction(sc, scope, name, info) ==
    IF name \in DOMAIN sc[scope].functions
    THEN [ok |-> FALSE, scopes |-> sc, err |-> SemanticError("Function already declared in this scope.")]
    ELSE [ok |-> TRUE, scopes |-> [sc EXCEPT ![scope].functions = (name :> info) @@ @], err |-> NoError]

(***************************************************************************)
(* The pending calls (interface unresolvedCall).  A field that is          *)
(* undefined is NoText (Absent for branch); branch holds a type string     *)
(* (TypeValue) or the AST node of the other operand.                       *)
(***************************************************************************)
Absent == [absent |-> TRUE]

TypeValue(t) == [typeName |-> t]

pushCall(cs, node, scope) ==
    Append(cs, [node |-> node, scope |-> scope, assignToVar |-> NoText, returnType |-> NoText,
                branch |-> Absent, operator |-> NoText])

pushVarCall(cs, node, scope, variable) ==
    Append(cs, [node |-> node, scope |-> scope, assignToVar |-> variable, returnType |-> NoText,
                branch |-> Absent, operator |-> NoText])

pushReturnCall(cs, node, scope, type) ==
    Append(cs, [node |-> node, scope |-> scope, assignToVar |-> NoText, returnType |-> type,
                branch |-> Absent, operator |-> NoText])

pushBranchCall(cs, node, scope, branch, operator) ==
    Append(cs, [node |-> node, scope |-> scope, assignToVar |-> NoText, returnType |-> NoText,
                branch |-> branch, operator |-> operator])

\* JavaScript truthiness of the optional fields of a pending call
truthy(text) == text \notin {NoText, Null, ""}

branchTruthy(branch) == branch # Absent /\ branch # TypeValue(Null) /\ branch # TypeValue("")

\* call.branch?.type || call.branch
branchTypeOf(branch) == IF "type" \in DOMAIN branch THEN branch.type ELSE branch.typeName

\* node.name / node.arguments of a node that may have no such property
nameOf(node) == IF "name" \in DOMAIN node THEN node.name ELSE "undefined"

(***************************************************************************)
(* checkExpression / checkBinaryExpression (semanticAnalysis.ts:397-470).  *)
(* The result is [ok, type, callStack, err]: the type returned and the     *)
(* call stack after the pushes made on the way, or the error thrown.       *)
(***************************************************************************)
\* K applied to a value computed once (`const value = ...`, then K)
Let(value, K(_)) == K(value)

Typed(type, cs) == [ok |-> TRUE, type |-> type, callStack |-> cs, err |-> NoError]

Thrown(err, cs) == [ok |-> FALSE, type |-> Null, callStack |-> cs, err |-> err]

ComparisonOperators == {"==", "!=", "<", ">", "<=", ">="}

LogicalOperators == {"&&", "||"}

ArithmeticOperators == {"+", "-", "*", "/", "^", "%"}

\* A binary check that takes the type of the left operand for the result
\* and never compares the operands
binaryResultLeft(cs0, expression, scope, leftType, rightType) ==
    IF expression.operator \in ComparisonOperators \cup LogicalOperators
    THEN Typed("boolean", cs0) ELSE Typed(leftType, cs0)

\* semanticAnalysis.ts:440-470, once both operand types are known
binaryResult(cs0, expression, scope, leftType, rightType) ==
    LET operator == expression.operator
        cs == IF leftType = "FunctionCall" /\ rightType = "FunctionCall"
              THEN pushBranchCall(cs0, expression.left, scope, expression.right, operator)
              ELSE IF rightType = "FunctionCall"
              THEN pushBranchCall(cs0, expression.right, scope, TypeValue(leftType), operator)
              ELSE IF leftType = "FunctionCall"
              THEN pushBranchCall(cs0, expression.left, scope, TypeValue(rightType), operator)
              ELSE cs0
        noCall == leftType # "FunctionCall" /\ rightType # "FunctionCall"
    IN IF leftType # rightType /\ noCall
       THEN Thrown(SemanticError("Type mismatch in expression"), cs)
       ELSE IF operator \in ComparisonOperators THEN Typed("boolean", cs)
       ELSE IF operator \in LogicalOperators
       THEN IF (leftType # "boolean" \/ rightType # "boolean") /\ noCall
            THEN Thrown(SemanticError("Logical operators require boolean operands"), cs)
            ELSE Typed("boolean", cs)
       ELSE IF operator \in ArithmeticOperators
       THEN IF (leftType \notin {"int", "float"} \/ rightType \notin {"int", "float"}) /\ noCall
            THEN Thrown(SemanticError("Arithmetic operators require numeric operands"), cs)
            ELSE Typed(IF leftType = "FunctionCall" THEN "int" ELSE leftType, cs)
       ELSE Typed(leftType, cs)

RECURSIVE checkExpression(_, _, _, _)

checkBinaryExpression(sc, cs, expression, scope) ==
    Let(checkExpression(sc, cs, expression.left, scope), LAMBDA l :
        IF ~l.ok THEN l
        ELSE Let(checkExpression(sc, l.callStack, expression.right, scope), LAMBDA r :
                IF ~r.ok THEN r
                ELSE binaryResult(r.callStack, expression, scope, l.type, r.type)))

checkExpression(sc, cs, expression, scope) ==
    CASE expression.type = "Literal" -> Typed(expression.dataType, cs)
      [] expression.type = "Identifier" ->
            Let(resolveVariable(sc, scope, expression.name), LAMBDA v :
                IF v.ok THEN Typed(v.type, cs) ELSE Thrown(v.err, cs))
      [] expression.type = "AssignmentExpression" ->
            IF expression.left.type # "Identifier"
            THEN Thrown(SemanticError("Invalid assignment target"), cs)
            ELSE Let(checkExpression(sc, cs, expression.right, scope), LAMBDA r :
                    IF ~r.ok THEN r
                    ELSE IF r.type = "FunctionCall"
                    THEN Typed(Null, pushVarCall(r.callStack, expression.right, scope,
                                                 expression.left.name))
                    ELSE Let(resolveVariable(sc, scope, expression.left.name), LAMBDA v :
                            IF ~v.ok THEN Thrown(v.err, r.callStack)
                            ELSE IF v.type # r.type
                            THEN Thrown(SemanticError("Type mismatch in assignment"), r.callStack)
                            ELSE Typed(v.type, r.callStack)))
      [] expression.type = "BinaryExpression" -> checkBinaryExpression(sc, cs, expression, scope)
      [] expression.type = "UnaryExpression" -> checkExpression(sc, cs, expression.argument, scope)
      [] expression.type = "FunctionCall" -> Typed(expression.type, cs)
      [] OTHER -> Thrown(SemanticError("Unknown expression type"), cs)

(***************************************************************************)
(* Pass 2: resolveCalls and what it calls (semanticAnalysis.ts:480-569).   *)
(* The result is [ok, type, callStack, err]: funcInfo.returnType and the   *)
(* call stack the invocation leaves, or the error thrown.                  *)
(***************************************************************************)
\* An operator check that accepts every operator for every type
checkOperatorAny(funcInfo, call, branchType) == NoError

\* checkOperator: the error thrown, or NoError
checkOperator(funcInfo, call, branchType) ==
    CASE call.operator \in LogicalOperators ->
            IF branchType # "boolean" \/ funcInfo.returnType # "boolean"
            THEN SemanticError("Logical operator requires boolean return type")
            ELSE NoError
      [] call.operator \in ArithmeticOperators ->
            IF branchType \notin {"int", "float"} \/ funcInfo.returnType \notin {"int", "float"}
            THEN SemanticError("Arithmetic operator requires numeric return type")
            ELSE NoError
      [] call.operator \in ComparisonOperators -> NoError
      [] OTHER -> SemanticError("Unknown operator in branch.")

\* A check that accepts every return type for the variable
checkVariableTypeAny(sc, funcInfo, call) == NoError

checkVariableType(sc, funcInfo, call) ==
    Let(resolveVariable(sc, call.scope, call.assignToVar), LAMBDA v :
        IF ~v.ok THEN v.err
        ELSE IF v.type # funcInfo.returnType THEN SemanticError("Variable type mismatch")
        ELSE NoError)

checkReturnType(funcInfo, call) ==
    IF call.returnType # funcInfo.returnType
    THEN SemanticError("Return type mismatch") ELSE NoError

RECURSIVE resolveCalls(_, _)
RECURSIVE checkArguments(_, _, _, _, _)

\* An argument loop that compares nothing
checkArgumentsUnchecked(sc, cs, funcInfo, call, i) == Typed(Null, cs)

\* The argument loop of checkCallArguments from position i (1-based) on
checkArguments(sc, cs, funcInfo, call, i) ==
    IF i > Len(funcInfo.params) THEN Typed(Null, cs)
    ELSE Let(checkExpression(sc, cs, call.node.arguments[i], call.scope), LAMBDA a :
            IF ~a.ok THEN a
            ELSE Let(IF a.type = "FunctionCall"
                     THEN resolveCalls(sc, pushCall(a.callStack, call.node.arguments[i], call.scope))
                     ELSE a,
                     LAMBDA r :
                        IF ~r.ok THEN r
                        ELSE IF r.type # funcInfo.params[i].type
                        THEN Thrown(SemanticError("Argument type mismatch"), r.callStack)
                        ELSE checkArguments(sc, r.callStack, funcInfo, call, i + 1)))

checkCallArguments(sc, cs, funcInfo, call) ==
    IF "arguments" \notin DOMAIN call.node THEN Thrown(TypeError, cs)
    ELSE IF Len(funcInfo.params) # Len(call.node.arguments)
    THEN Thrown(SemanticError("Function called with incorrect number of arguments."), cs)
    ELSE checkArguments(sc, cs, funcInfo, call, 1)

\* checkBranch, given the call stack cs
checkBranch(sc, cs, funcInfo, call) ==
    IF branchTypeOf(call.branch) = "FunctionCall"
    THEN Let(resolveCalls(sc, pushCall(cs, call.branch, call.scope)), LAMBDA r :
            IF ~r.ok THEN r
            ELSE IF funcInfo.returnType # r.type
            THEN Thrown(SemanticError("Branch type mismatch"), r.callStack)
            ELSE Let(checkOperator(funcInfo, call, r.type), LAMBDA err :
                    IF err # NoError THEN Thrown(err, r.callStack) ELSE Typed(Null, r.callStack)))
    ELSE IF branchTypeOf(call.branch) # funcInfo.returnType
    THEN Thrown(SemanticError("Branch type mismatch"), cs)
    ELSE Let(checkOperator(funcInfo, call, branchTypeOf(call.branch)), LAMBDA err :
            IF err # NoError THEN Thrown(err, cs) ELSE Typed(Null, cs))

\* resolveCalls after checkCallArguments left the call stack cs
checkCallContext(sc, cs, funcInfo, call) ==
    Let(IF truthy(call.assignToVar) THEN checkVariableType(sc, funcInfo, call) ELSE NoError,
        LAMBDA varErr :
            IF varErr # NoError THEN Thrown(varErr, cs)
            ELSE IF truthy(call.returnType) /\ checkReturnType(funcInfo, call) # NoError
            THEN Thrown(checkReturnType(funcInfo, call), cs)
            ELSE IF branchTruthy(call.branch)
            THEN Let(checkBranch(sc, cs, funcInfo, call), LAMBDA b :
                    IF ~b.ok THEN b ELSE Typed(funcInfo.returnType, b.callStack))
            ELSE Typed(funcInfo.returnType, cs))

\* resolveCalls once popCall() has returned `call` and left the call stack cs
resolveCall(sc, cs, call) ==
    Let(resolveFunction(sc, call.scope, nameOf(call.node)), LAMBDA f :
        IF ~f.ok THEN Thrown(f.err, cs)
        ELSE Let(checkCallArguments(sc, cs, f.info, call), LAMBDA a :
                IF ~a.ok THEN a ELSE checkCallContext(sc, a.callStack, f.info, call)))

resolveCalls(sc, cs0) == resolveCall(sc, SubSeq(cs0, 1, Len(cs0) - 1), cs0[Len(cs0)])

(***************************************************************************)
(* Statement nodes, as parseX returns them (parser.ts:201-207, 227-231,    *)
(* 254-260, 272-275, 286-289, 323-329, 344-349, 111-114).                  *)
(***************************************************************************)
VariableDeclaration(dataType, name, value) ==
    [type |-> "VariableDeclaration", dataType |-> dataType, name |-> name, value |-> value]

FunctionDeclaration(returnType, name, parameters, body) ==
    [type |-> "FunctionDeclaration", returnType |-> returnType, name |-> name,
     parameters |-> parameters, body |-> body]

ExpressionStatement(expression) == [type |-> "ExpressionStatement", expression |-> expression]

ReturnStatement(value) == [type |-> "ReturnStatement", value |-> value]

IfStatement(condition, body, elseIf, elseBody) ==
    [type |-> "IfStatement", condition |-> condition, body |-> body,
     elseIf |-> elseIf, else |-> elseBody]

WhileLoop(condition, body) == [type |-> "WhileLoop", condition |-> condition, body |-> body]

ForLoop(initialization, condition, increment, body) ==
    [type |-> "ForLoop", initialization |-> initialization, condition |-> condition,
     increment |-> increment, body |-> body]

ControlFlowStatement(flowType) == [type |-> "ControlFlowStatement", flowType |-> flowType]

Program(body) == [type |-> "Program", start |-> 1, end |-> 1, body |-> body]

(***************************************************************************)
(* Pass 1 as a machine.  The module state of the analyzer is the record    *)
(* [scopes, work, callStack, contextStack, status, error, log].  work is   *)
(* what is left of the traversal: the statements still to be analyzed,     *)
(* the bodies still to be entered and the contextStack.pop() calls still   *)
(* to be made, in the order the recursion of traverse reaches them.        *)
(* `loops` counts the while/for statements around a task (for the log).    *)
(***************************************************************************)
Task(task, node, scope, name, loops) ==
    [task |-> task, node |-> node, scope |-> scope, name |-> name, loops |-> loops]

\* traverse(body, scope): one analyzeNode per node, in order
traverse(body, scope, loops) ==
    [i \in 1..Len(body) |-> Task("node", body[i], scope, NoText, loops)]

\* checkBody(body, scope, name), still to be called
bodyTask(body, scope, name, loops) == Task("body", [body |-> body], scope, name, loops)

popTask == Task("pop", NoNode, 0, NoText, 0)

throwIn(m, err) == [m EXCEPT !.status = "failed", !.error = err, !.work = <<>>]

\* checkCondition: [ok, callStack, err]
checkCondition(sc, cs, node, scope) ==
    Let(checkExpression(sc, cs, node.condition, scope), LAMBDA c :
        IF ~c.ok THEN c
        ELSE IF c.type # "boolean" /\ c.type # "FunctionCall"
        THEN Thrown(SemanticError("Condition must be boolean"), c.callStack)
        ELSE IF c.type = "FunctionCall"
        THEN Typed(c.type, pushCall(c.callStack, node.condition, scope))
        ELSE c)

\* checkVariableDeclaration: [ok, scopes, callStack, err]
checkVariableDeclaration(sc, cs, node, scope) ==
    Let(checkExpression(sc, cs, node.value, scope), LAMBDA v :
        IF ~v.ok THEN [ok |-> FALSE, scopes |-> sc, callStack |-> v.callStack, err |-> v.err]
        ELSE IF v.type # "FunctionCall" /\ node.dataType # v.type
        THEN [ok |-> FALSE, scopes |-> sc, callStack |-> v.callStack,
              err |-> SemanticError("Type mismatch: variable")]
        ELSE Let(declareVariable(sc, scope, node.name, node.dataType), LAMBDA d :
                [ok |-> d.ok, scopes |-> d.scopes, err |-> d.err,
                 callStack |-> IF v.type = "FunctionCall"
                               THEN pushVarCall(v.callStack, node.value, scope, node.name)
                               ELSE v.callStack]))

variableDeclarationStep(m, t) ==
    Let(checkVariableDeclaration(m.scopes, m.callStack, t.node, t.scope), LAMBDA r :
        Let([m EXCEPT !.scopes = r.scopes, !.callStack = r.callStack, !.work = Tail(@)], LAMBDA m2 :
            IF r.ok THEN m2 ELSE throwIn(m2, r.err)))

\* node.parameters.forEach(param => declareVariable(funcScope, ...)) from position i on
RECURSIVE declareParameters(_, _, _, _)
declareParameters(sc, funcScope, parameters, i) ==
    IF i > Len(parameters) THEN [ok |-> TRUE, scopes |-> sc, err |-> NoError]
    ELSE Let(declareVariable(sc, funcScope, parameters[i].name, parameters[i].dataType), LAMBDA d :
            IF ~d.ok THEN d ELSE declareParameters(d.scopes, funcScope, parameters, i + 1))

functionInfo(node) ==
    [params |-> [i \in 1..Len(node.parameters) |->
                    [name |-> node.parameters[i].name, type |-> node.parameters[i].dataType]],
     returnType |-> node.returnType]

functionDeclarationStep(m, t) ==
    Let(declareParameters(Append(m.scopes, createScope(t.scope, t.node.name)),
                          Len(m.scopes) + 1, t.node.parameters, 1), LAMBDA p :
        IF ~p.ok THEN throwIn([m EXCEPT !.scopes = p.scopes], p.err)
        ELSE Let(declareFunction(p.scopes, t.scope, t.node.name, functionInfo(t.node)), LAMBDA f :
                IF ~f.ok THEN throwIn([m EXCEPT !.scopes = f.scopes], f.err)
                ELSE [m EXCEPT !.scopes = f.scopes,
                               !.work = traverse(t.node.body, Len(m.scopes) + 1, t.loops)
                                        \o Tail(@)]))

expressionStatementStep(m, t) ==
    Let(checkExpression(m.scopes, m.callStack, t.node.expression, t.scope), LAMBDA e :
        IF ~e.ok THEN throwIn([m EXCEPT !.callStack = e.callStack], e.err)
        ELSE [m EXCEPT !.work = Tail(@),
                       !.callStack = IF e.type = "FunctionCall"
                                     THEN pushCall(e.callStack, t.node.expression, t.scope)
                                     ELSE e.callStack])

returnStep(m, t) ==
    Let(resolveFunction(m.scopes, t.scope, m.scopes[t.scope].name), LAMBDA f :
        IF ~f.ok THEN throwIn(m, f.err)
        ELSE Let(checkExpression(m.scopes, m.callStack, t.node.value, t.scope), LAMBDA e :
                IF ~e.ok THEN throwIn([m EXCEPT !.callStack = e.callStack], e.err)
                ELSE IF e.type # "FunctionCall" /\ e.type # f.info.returnType
                THEN throwIn([m EXCEPT !.callStack = e.callStack],
                             SemanticError("Return type mismatch"))
                ELSE [m EXCEPT !.work = Tail(@),
                               !.callStack =
                                   IF e.type = "FunctionCall"
                                   THEN pushReturnCall(e.callStack, t.node.value, t.scope,
                                                       f.info.returnType)
                                   ELSE e.callStack]))

\* checkIfStatement: the condition now; the bodies and the else-if chain follow
ifStatementStep(m, t) ==
    Let(checkCondition(m.scopes, m.callStack, t.node, t.scope), LAMBDA c :
        IF ~c.ok THEN throwIn([m EXCEPT !.callStack = c.callStack], c.err)
        ELSE [m EXCEPT !.callStack = c.callStack,
                       !.work = <<bodyTask(t.node.body, t.scope, "if", t.loops),
                                  Task("elseIfs", t.node, t.scope, NoText, t.loops),
                                  Task("else", t.node, t.scope, NoText, t.loops)>> \o Tail(@)])

\* `if(node.elseIfs) checkElseIfs(node, scope)` (semanticAnalysis.ts:297)
hasElseIfs(node) == "elseIfs" \in DOMAIN node

elseIfsStep(m, t) ==
    IF ~hasElseIfs(t.node) THEN [m EXCEPT !.work = Tail(@)]
    ELSE IF "elseIf" \notin DOMAIN t.node
    THEN throwIn(m, TypeError)     \* `for(const elseIf of undefined)`
    ELSE [m EXCEPT !.work = [i \in 1..Len(t.node.elseIf) |->
                                Task("elseIf", t.node.elseIf[i], t.scope, NoText, t.loops)]
                            \o Tail(@)]

\* One turn of the loop of checkElseIfs (semanticAnalysis.ts:305-308)
elseIfStep(m, t) ==
    Let(checkCondition(m.scopes, m.callStack, t.node, t.scope), LAMBDA c :
        IF ~c.ok THEN throwIn([m EXCEPT !.callStack = c.callStack], c.err)
        ELSE [m EXCEPT !.callStack = c.callStack,
                       !.work = <<bodyTask(t.node.body, t.scope, "else if", t.loops)>> \o Tail(@)])

\* `if(node.else) checkBody(node.else, scope, "else")` (semanticAnalysis.ts:298)
elseStep(m, t) ==
    IF "else" \notin DOMAIN t.node THEN [m EXCEPT !.work = Tail(@)]
    ELSE [m EXCEPT !.work = <<bodyTask(t.node.else, t.scope, "else", t.loops)>> \o Tail(@)]

\* checkBody: createScope, then traverse
bodyStep(m, t) ==
    [m EXCEPT !.scopes = Append(@, createScope(t.scope, t.name)),
              !.work = traverse(t.node.body, Len(m.scopes) + 1, t.loops) \o Tail(@)]

LoopContext == [inLoop |-> TRUE, inSwitch |-> FALSE]

whileLoopStep(m, t) ==
    Let(checkCondition(m.scopes, m.callStack, t.node, t.scope), LAMBDA c :
        Let([m EXCEPT !.contextStack = Append(@, LoopContext), !.callStack = c.callStack],
            LAMBDA m1 :
                IF ~c.ok THEN throwIn(m1, c.err)
                ELSE [m1 EXCEPT !.work = <<bodyTask(t.node.body, t.scope, "while", t.loops + 1),
                                           popTask>> \o Tail(@)]))

\* A for loop that goes on to its body whatever the increment is
forLoopIncrementAny(m, t) ==
    [m EXCEPT !.work = <<bodyTask(t.node.body, t.scope, "for", t.loops + 1), popTask>> \o Tail(@)]

\* checkForLoop from the test of the increment on (semanticAnalysis.ts:336-343);
\* m holds the scopes and the call stack that the checks before it left
forLoopIncrement(m, t) ==
    IF t.node.increment.type # "UnaryExpression"
    THEN throwIn(m, SemanticError("For loop must have an increment or decrement"))
    ELSE IF t.node.increment.operator \notin {"++", "--"}
    THEN throwIn(m, SemanticError("For loop increment must be '++' or '--'"))
    ELSE Let(checkExpression(m.scopes, m.callStack, t.node.increment, t.scope), LAMBDA i :
            IF ~i.ok THEN throwIn([m EXCEPT !.callStack = i.callStack], i.err)
            ELSE IF i.type \notin {"int", "float"}
            THEN throwIn([m EXCEPT !.callStack = i.callStack],
                         SemanticError("For loop increment must be numeric"))
            ELSE [m EXCEPT !.callStack = i.callStack,
                           !.work = <<bodyTask(t.node.body, t.scope, "for", t.loops + 1),
                                      popTask>> \o Tail(@)])

\* A for loop that declares its variable in a scope of its own
forLoopStepOwnScope(m, t) ==
    Let([m EXCEPT !.contextStack = Append(@, LoopContext),
                  !.scopes = Append(@, createScope(t.scope, "for"))], LAMBDA m1 :
        Let([t EXCEPT !.scope = Len(m1.scopes)], LAMBDA u :
            IF u.node.initialization.type # "VariableDeclaration"
            THEN throwIn(m1, SemanticError("For loop initialization must be a variable declaration"))
            ELSE Let(checkVariableDeclaration(m1.scopes, m.callStack, u.node.initialization, u.scope),
                     LAMBDA d :
                        IF ~d.ok
                        THEN throwIn([m1 EXCEPT !.scopes = d.scopes, !.callStack = d.callStack], d.err)
                        ELSE Let(checkCondition(d.scopes, d.callStack, u.node, u.scope), LAMBDA c :
                                IF ~c.ok
                                THEN throwIn([m1 EXCEPT !.scopes = d.scopes,
                                                        !.callStack = c.callStack], c.err)
                                ELSE forLoopIncrement([m1 EXCEPT !.scopes = d.scopes,
                                                                 !.callStack = c.callStack], u)))))

forLoopStep(m, t) ==
    Let([m EXCEPT !.contextStack = Append(@, LoopContext)], LAMBDA m1 :
        IF t.node.initialization.type # "VariableDeclaration"
        THEN throwIn(m1, SemanticError("For loop initialization must be a variable declaration"))
        ELSE Let(checkVariableDeclaration(m.scopes, m.callStack, t.node.initialization, t.scope),
                 LAMBDA d :
                    IF ~d.ok
                    THEN throwIn([m1 EXCEPT !.scopes = d.scopes, !.callStack = d.callStack], d.err)
                    ELSE Let(checkCondition(d.scopes, d.callStack, t.node, t.scope), LAMBDA c :
                            IF ~c.ok
                            THEN throwIn([m1 EXCEPT !.scopes = d.scopes,
                                                    !.callStack = c.callStack], c.err)
                            ELSE forLoopIncrement([m1 EXCEPT !.scopes = d.scopes,
                                                             !.callStack = c.callStack], t))))

\* A loop end that leaves its frame on the stack
popStepKeep(m, t) == [m EXCEPT !.work = Tail(@)]

\* contextStack.pop() at the end of checkWhileLoop / checkForLoop
popStep(m, t) ==
    [m EXCEPT !.work = Tail(@),
              !.contextStack = IF @ = <<>> THEN @ ELSE SubSeq(@, 1, Len(@) - 1)]

\* checkControlFlowStatement: the error thrown, or NoError
checkControlFlowStatement(ctx, node) ==
    IF node.flowType \notin {"break", "continue"} THEN NoError
    ELSE IF ctx = <<>> THEN TypeError          \* currentContext is undefined
    ELSE LET currentContext == ctx[Len(ctx)]
         IN IF node.flowType = "break" /\ ~currentContext.inLoop /\ ~currentContext.inSwitch
            THEN SemanticError("Break statement can only be used inside a loop or switch statement.")
            ELSE IF node.flowType = "continue" /\ ~currentContext.inLoop
            THEN SemanticError("Continue statement can only be used inside a loop.")
            ELSE NoError

controlFlowStep(m, t) ==
    Let(checkControlFlowStatement(m.contextStack, t.node), LAMBDA err :
        Let([m EXCEPT !.work = Tail(@),
                      !.log = Append(@, [op |-> "controlFlow", flowType |-> t.node.flowType,
                                         depth |-> Len(m.contextStack), loops |-> t.loops,
                                         error |-> err])],
            LAMBDA m2 : IF err = NoError THEN m2 ELSE throwIn(m2, err)))

unknownNodeStep(m, t) == throwIn(m, SemanticError("Unknown AST node type"))

StatementTypes ==
    {"VariableDeclaration", "FunctionDeclaration", "ExpressionStatement", "ReturnStatement",
     "IfStatement", "WhileLoop", "ForLoop", "ControlFlowStatement"}

\* analyzeNode: the switch on node.type
analyzeNode(m, t) ==
    CASE t.node.type = "VariableDeclaration" -> variableDeclarationStep(m, t)
      [] t.node.type = "FunctionDeclaration" -> functionDeclarationStep(m, t)
      [] t.node.type = "ExpressionStatement" -> expressionStatementStep(m, t)
      [] t.node.type = "ReturnStatement" -> returnStep(m, t)
      [] t.node.type = "IfStatement" -> ifStatementStep(m, t)
      [] t.node.type = "WhileLoop" -> whileLoopStep(m, t)
      [] t.node.type = "ForLoop" -> forLoopStep(m, t)
      [] t.node.type = "ControlFlowStatement" -> controlFlowStep(m, t)
      [] OTHER -> unknownNodeStep(m, t)

\* A drain turn that also writes the type it resolved into the AST
resolveStepAnnotating(m) ==
    Let(resolveCalls(m.scopes, m.callStack), LAMBDA r :
        Let([m EXCEPT !.callStack = r.callStack,
                      !.ast = ("dataType" :> r.type) @@ @,
                      !.log = Append(@, [op |-> "resolveCalls", before |-> Len(m.callStack),
                                         after |-> Len(r.callStack), error |-> r.err])],
            LAMBDA m2 : IF r.ok THEN m2 ELSE throwIn(m2, r.err)))

\* A drain turn that puts the entry it took back under the others
resolveStepRotate(m) ==
    [m EXCEPT !.callStack = <<m.callStack[Len(m.callStack)]>>
                             \o SubSeq(m.callStack, 1, Len(m.callStack) - 1)]

\* One drain turn of analyze: `while(callStack.length > 0) resolveCalls()`
resolveStep(m) ==
    Let(resolveCalls(m.scopes, m.callStack), LAMBDA r :
        Let([m EXCEPT !.callStack = r.callStack,
                      !.log = Append(@, [op |-> "resolveCalls", before |-> Len(m.callStack),
                                         after |-> Len(r.callStack), error |-> r.err])],
            LAMBDA m2 : IF r.ok THEN m2 ELSE throwIn(m2, r.err)))

\* analyze up to its first statement: the global scope and the traversal ahead
analyzeStart(a, sc, cs, ctx) ==
    [ast |-> a,
     scopes |-> Append(sc, createScope(0, "global")),
     work |-> traverse(a.body, Len(sc) + 1, 0),
     callStack |-> cs, contextStack |-> ctx,
     status |-> "pass1", error |-> NoError, log |-> <<>>]

\* An analyze that resolves a pending call as soon as one is registered
analyzeStepEager(m) ==
    IF m.callStack # <<>> THEN resolveStep(m)
    ELSE IF m.status = "pass2" THEN [m EXCEPT !.status = "returned"]
    ELSE IF m.work = <<>> THEN [m EXCEPT !.status = "pass2"]
    ELSE LET t == Head(m.work)
         IN CASE t.task = "node" -> analyzeNode(m, t)
              [] t.task = "body" -> bodyStep(m, t)
              [] t.task = "elseIfs" -> elseIfsStep(m, t)
              [] t.task = "elseIf" -> elseIfStep(m, t)
              [] t.task = "else" -> elseStep(m, t)
              [] t.task = "pop" -> popStep(m, t)

\* The next step of analyze in module state m
analyzeStep(m) ==
    IF m.status = "pass1"
    THEN IF m.work = <<>> THEN [m EXCEPT !.status = "pass2"]
         ELSE LET t == Head(m.work)
              IN CASE t.task = "node" -> analyzeNode(m, t)
                   [] t.task = "body" -> bodyStep(m, t)
                   [] t.task = "elseIfs" -> elseIfsStep(m, t)
                   [] t.task = "elseIf" -> elseIfStep(m, t)
                   [] t.task = "else" -> elseStep(m, t)
                   [] t.task = "pop" -> popStep(m, t)
    ELSE IF m.callStack # <<>> THEN resolveStep(m)
         ELSE [m EXCEPT !.status = "returned"]

\* analyze(a) run to its end from the module state (sc, cs, ctx)
RECURSIVE runAnalyze(_)
runAnalyze(m) == IF m.status \in {"returned", "failed"} THEN m ELSE runAnalyze(analyzeStep(m))

(***************************************************************************)
(* The analyzer's actions: one per function of semanticAnalysis.ts, each   *)
(* applying its step to the module state.                                  *)
(***************************************************************************)
Current ==
    [ast |-> ast, scopes |-> scopes, work |-> work, callStack |-> callStack, contextStack |-> contextStack,
     status |-> astatus, error |-> aerror, log |-> alog]

Apply(m) ==
    /\ ast' = m.ast
    /\ scopes' = m.scopes
    /\ work' = m.work
    /\ callStack' = m.callStack
    /\ contextStack' = m.contextStack
    /\ astatus' = m.status
    /\ aerror' = m.error
    /\ alog' = m.log
    /\ UNCHANGED <<acalls, astart, pvars, svars>>

TaskIs(task) == astatus = "pass1" /\ work # <<>> /\ Head(work).task = task

NodeIs(type) == TaskIs("node") /\ Head(work).node.type = type

\* analyze(a), entered with the module's callStack and contextStack as they are
AnalyzeCall(a) ==
    /\ astatus \in {"idle", "returned", "failed"}
    /\ acalls < MaxAnalyzeCalls
    /\ ast' = a
    /\ acalls' = acalls + 1
    /\ astart' = [ast |-> a, callStack |-> Len(callStack), contextStack |-> Len(contextStack)]
    /\ LET m == analyzeStart(a, scopes, callStack, contextStack)
       IN /\ scopes' = m.scopes
          /\ work' = m.work
          /\ astatus' = m.status
          /\ aerror' = m.error
          /\ alog' = m.log
    /\ UNCHANGED <<callStack, contextStack, pvars, svars>>

CheckVariableDeclaration ==
    NodeIs("VariableDeclaration") /\ Apply(variableDeclarationStep(Current, Head(work)))

CheckFunctionDeclaration ==
    NodeIs("FunctionDeclaration") /\ Apply(functionDeclarationStep(Current, Head(work)))

CheckExpressionStatement ==
    NodeIs("ExpressionStatement") /\ Apply(expressionStatementStep(Current, Head(work)))

CheckReturn == NodeIs("ReturnStatement") /\ Apply(returnStep(Current, Head(work)))

CheckIfStatement == NodeIs("IfStatement") /\ Apply(ifStatementStep(Current, Head(work)))

CheckElseIfs == TaskIs("elseIfs") /\ Apply(elseIfsStep(Current, Head(work)))

CheckElseIf == TaskIs("elseIf") /\ Apply(elseIfStep(Current, Head(work)))

CheckElse == TaskIs("else") /\ Apply(elseStep(Current, Head(work)))

CheckBody == TaskIs("body") /\ Apply(bodyStep(Current, Head(work)))

CheckWhileLoop == NodeIs("WhileLoop") /\ Apply(whileLoopStep(Current, Head(work)))

CheckForLoop == NodeIs("ForLoop") /\ Apply(forLoopStep(Current, Head(work)))

PopContext == TaskIs("pop") /\ Apply(popStep(Current, Head(work)))

CheckControlFlowStatement ==
    NodeIs("ControlFlowStatement") /\ Apply(controlFlowStep(Current, Head(work)))

UnknownNode ==
    /\ TaskIs("node") /\ Head(work).node.type \notin StatementTypes
    /\ Apply(unknownNodeStep(Current, Head(work)))

\* traverse(ast.body, globalScope) has returned
EndTraverse ==
    /\ astatus = "pass1" /\ work = <<>>
    /\ Apply(analyzeStep(Current))

ResolveCalls ==
    /\ astatus = "pass2" /\ callStack # <<>>
    /\ Apply(resolveStep(Current))

AnalyzeReturn ==
    /\ astatus = "pass2" /\ callStack = <<>>
    /\ Apply(analyzeStep(Current))

(***************************************************************************)
(* ASTs given to analyze, in the shape parse returns them.                 *)
(***************************************************************************)
IntLit == Literal("int", "1")

StrLit == Literal("string", "s")

BoolLit == Literal("boolean", "true")

LitOf(T) == IF T = "int" THEN IntLit ELSE IF T = "string" THEN StrLit ELSE BoolLit

Call(name, args) == FunctionCall(name, args)

If(condition, body) == IfStatement(condition, body, <<>>, <<>>)

IfElse(condition, body, elseBody) == IfStatement(condition, body, <<>>, elseBody)

\* for (int i = 1; i < 1; i++) { body }
For(body) ==
    ForLoop(VariableDeclaration("int", "i", IntLit),
            BinaryExpression("<", Identifier("i"), IntLit),
            UnaryExpression("++", Identifier("i"), FALSE), body)

While(body) == WhileLoop(BoolLit, body)

LoopOf(kind, body) == IF kind = "while" THEN While(body) ELSE For(body)

\* T function name() { return <literal of T>; }
Function0(T, name) == FunctionDeclaration(T, name, <<>>, <<ReturnStatement(LitOf(T))>>)

\* --- calls placed before or after the declaration of the callee g ---
CallSites == {"return", "statement", "variable", "nested", "condition"}

CallSite(site) ==
    CASE site = "return" ->
            FunctionDeclaration("int", "f", <<>>, <<ReturnStatement(Call("g", <<>>))>>)
      [] site = "statement" -> ExpressionStatement(Call("g", <<>>))
      [] site = "variable" -> VariableDeclaration("int", "x", Call("g", <<>>))
      [] site = "nested" ->
            FunctionDeclaration("int", "f", <<>>,
                <<If(BoolLit, <<While(<<ExpressionStatement(Call("g", <<>>))>>)>>),
                  ReturnStatement(IntLit)>>)
      [] site = "condition" -> WhileLoop(Call("g", <<>>), <<>>)

ForwardProgram(site, T, order) ==
    Program(IF order = "callFirst" THEN <<CallSite(site), Function0(T, "g")>>
            ELSE <<Function0(T, "g"), CallSite(site)>>)

ForwardPrograms ==
    {ForwardProgram(site, T, order) :
        <<site, T, order>> \in CallSites \X {"int", "string"} \X {"callFirst", "declarationFirst"}}

\* --- calls of int function add(int a, int b) { return a + b; } ---
MaxArguments == 3

AddFunction ==
    FunctionDeclaration("int", "add",
        <<[dataType |-> "int", name |-> "a"], [dataType |-> "int", name |-> "b"]>>,
        <<ReturnStatement(BinaryExpression("+", Identifier("a"), Identifier("b")))>>)

ArgumentLists ==
    UNION {[1..n -> {IntLit, StrLit, Identifier("n"), Call("add", <<IntLit, IntLit>>)}] :
            n \in 0..MaxArguments}

\* int n = 1; <add>; T r = add(args);
ArgumentProgram(T, args) ==
    Program(<<VariableDeclaration("int", "n", IntLit), AddFunction,
              VariableDeclaration(T, "r", Call("add", args))>>)

ArgumentPrograms == {ArgumentProgram(T, args) : <<T, args>> \in {"int", "string"} \X ArgumentLists}

\* --- break / continue, in and out of loops ---
FlowTypes == {"break", "continue"}

Wrappers == {"bare", "if", "else", "ifElse", "function", "afterInnerLoop"}

Wrap(wrapper, stmt) ==
    CASE wrapper = "bare" -> <<stmt>>
      [] wrapper = "if" -> <<If(BoolLit, <<stmt>>)>>
      [] wrapper = "else" -> <<IfElse(BoolLit, <<>>, <<stmt>>)>>
      [] wrapper = "ifElse" -> <<If(BoolLit, <<IfElse(BoolLit, <<>>, <<stmt>>)>>)>>
      [] wrapper = "function" -> <<FunctionDeclaration("void", "h", <<>>, <<stmt>>)>>
      [] wrapper = "afterInnerLoop" -> <<While(<<>>), stmt>>

OutsideLoopPrograms ==
    {Program(Wrap(w, ControlFlowStatement(flow))) : <<w, flow>> \in Wrappers \X FlowTypes}

InsideLoopPrograms ==
    {Program(<<LoopOf(kind, Wrap(w, ControlFlowStatement(flow)))>>) :
        <<kind, w, flow>> \in {"while", "for"} \X Wrappers \X FlowTypes}

AfterLoopPrograms ==
    {Program(<<LoopOf(kind, <<>>)>> \o Wrap(w, ControlFlowStatement(flow))) :
        <<kind, w, flow>> \in {"while", "for"} \X {"bare", "if", "else"} \X FlowTypes}

ControlFlowPrograms == OutsideLoopPrograms \cup InsideLoopPrograms \cup AfterLoopPrograms

\* --- if (true) { } else if (condition) { body } ---
ElseIfConditions == {BoolLit, IntLit, Identifier("u")}

ElseIfBodies ==
    {<<>>,
     <<ExpressionStatement(AssignmentExpression("u", IntLit))>>,
     <<VariableDeclaration("int", "z", StrLit)>>,
     <<ControlFlowStatement("break")>>}

ElseIfNode(condition, body) == [condition |-> condition, body |-> body]

ElseIfProgram(condition, body) ==
    Program(<<IfStatement(BoolLit, <<>>, <<ElseIfNode(condition, body)>>, <<>>)>>)

ElseIfPrograms ==
    {ElseIfProgram(c, b) : <<c, b>> \in ElseIfConditions \X ElseIfBodies}
    \cup {Program(<<IfStatement(BoolLit, <<>>,
                      <<ElseIfNode(BoolLit, <<>>), ElseIfNode(c, <<>>)>>, <<>>)>>) :
            c \in ElseIfConditions}

\* An AST not made by parse: an IfStatement that carries the `elseIfs` field
\* checkIfStatement tests, next to the `elseIf` list checkElseIfs walks.
WithElseIfs(program) ==
    [program EXCEPT !.body = <<[f \in DOMAIN program.body[1] \cup {"elseIfs"} |->
                                  IF f = "elseIfs" THEN program.body[1].elseIf
                                  ELSE program.body[1][f]]>>]

HandBuiltPrograms ==
    {WithElseIfs(ElseIfProgram(c, <<>>)) : c \in {BoolLit, IntLit}}
    \cup {Program(<<EndOfFile>>)}

\* --- programs that fail in pass 1 with calls pending or a loop entered ---
FailingPrograms ==
    {Program(<<ExpressionStatement(Call("f", <<>>)), VariableDeclaration("int", "x", StrLit)>>),
     Program(<<While(<<VariableDeclaration("int", "x", StrLit)>>)>>),
     Program(<<For(<<ExpressionStatement(Identifier("u"))>>)>>),
     Program(<<VariableDeclaration("int", "x", Call("f", <<>>)), WhileLoop(IntLit, <<>>)>>)}

ValidPrograms ==
    {Program(<<>>),
     Program(<<VariableDeclaration("int", "x", IntLit)>>),
     ForwardProgram("return", "int", "callFirst")}

\* --- a return inside a block of the body of f ---
BlockKinds == {"if", "else", "while", "for"}

BlockOf(kind, body) ==
    CASE kind = "if" -> If(BoolLit, body)
      [] kind = "else" -> IfElse(BoolLit, <<>>, body)
      [] kind = "while" -> While(body)
      [] kind = "for" -> For(body)

\* int function f() { <block> { return <literal of R>; } }
NestedReturnProgram(kind, R) ==
    Program(<<FunctionDeclaration("int", "f", <<>>,
                <<BlockOf(kind, <<ReturnStatement(LitOf(R))>>)>>)>>)

NestedReturnPrograms ==
    {NestedReturnProgram(kind, R) : kind \in BlockKinds, R \in {"int", "string"}}

\* --- a call of g as the condition of an if, a while or a for ---
ConditionKinds == {"if", "while", "for"}

ConditionOf(kind, condition) ==
    CASE kind = "if" -> If(condition, <<>>)
      [] kind = "while" -> WhileLoop(condition, <<>>)
      [] kind = "for" ->
            ForLoop(VariableDeclaration("int", "i", IntLit), condition,
                    UnaryExpression("++", Identifier("i"), FALSE), <<>>)

\* T function g() { return <literal of T>; } <statement with condition g()>
ConditionCallProgram(kind, T) ==
    Program(<<Function0(T, "g"), ConditionOf(kind, Call("g", <<>>))>>)

ConditionCallPrograms ==
    {ConditionCallProgram(kind, T) : kind \in ConditionKinds, T \in {"boolean", "int", "string"}}

\* --- a second declaration of x or f, in the same scope or in a nested one ---
DeclarationKinds == {"variable", "function"}

DeclarationPlaces == {"same"} \cup BlockKinds \cup {"function"}

Declaration(what, T) ==
    IF what = "variable" THEN VariableDeclaration(T, "x", LitOf(T)) ELSE Function0(T, "f")

\* int x = 1; / int function f() { return 1; }   followed by a declaration of
\* the same name with type T, placed in the same scope, in a block or in the
\* body of a function h
RedeclarationProgram(what, place, T) ==
    Program(<<Declaration(what, "int"),
              CASE place = "same" -> Declaration(what, T)
                [] place = "function" ->
                      FunctionDeclaration("int", "h", <<>>,
                          <<Declaration(what, T), ReturnStatement(IntLit)>>)
                [] OTHER -> BlockOf(place, <<Declaration(what, T)>>)>>)

RedeclarationPrograms ==
    {RedeclarationProgram(what, place, T) :
        what \in DeclarationKinds, place \in DeclarationPlaces, T \in {"int", "string"}}

\* --- a variable declared again in a block, and names used in and after it ---
Assign(name, T) == ExpressionStatement(AssignmentExpression(name, LitOf(T)))

ValueTypes == {"int", "string", "boolean"}

\* int x = 1; if (true) { Tin x = <Tin>; x = <Uin>; } x = <Uout>;
ShadowProgram(Tin, Uin, Uout) ==
    Program(<<VariableDeclaration("int", "x", IntLit),
              If(BoolLit, <<VariableDeclaration(Tin, "x", LitOf(Tin)), Assign("x", Uin)>>),
              Assign("x", Uout)>>)

\* int y = 1; <block> { y = <U>; }
OuterUseProgram(kind, U) ==
    Program(<<VariableDeclaration("int", "y", IntLit), BlockOf(kind, <<Assign("y", U)>>)>>)

\* <block> { int z = 1; } z = 1;      and      z = 1;
InnerOnlyProgram(kind) ==
    Program(<<BlockOf(kind, <<VariableDeclaration("int", "z", IntLit)>>), Assign("z", "int")>>)

UndeclaredProgram == Program(<<Assign("z", "int")>>)

ShadowPrograms ==
    {ShadowProgram(Tin, Uin, Uout) :
        Tin \in {"string", "boolean"}, Uin \in ValueTypes, Uout \in ValueTypes}
    \cup {OuterUseProgram(kind, U) : kind \in BlockKinds, U \in ValueTypes}
    \cup {InnerOnlyProgram(kind) : kind \in BlockKinds} \cup {UndeclaredProgram}

\* --- two call statements, the second with a call inside its argument ---
EchoFunction ==
    FunctionDeclaration("int", "h", <<[dataType |-> "int", name |-> "a"]>>,
        <<ReturnStatement(Identifier("a"))>>)

DrainArguments ==
    {IntLit, Call("g", <<>>), Call("h", <<Call("g", <<>>)>>),
     BinaryExpression("+", IntLit, IntLit),
     BinaryExpression("+", Call("g", <<>>), IntLit),
     BinaryExpression("+", IntLit, Call("g", <<>>)),
     BinaryExpression("<", Call("g", <<>>), IntLit)}

\* int function g() { return 1; } int function h(int a) { return a; } g(); h(<argument>);
DrainProgram(argument) ==
    Program(<<Function0("int", "g"), EchoFunction, ExpressionStatement(Call("g", <<>>)),
              ExpressionStatement(Call("h", <<argument>>))>>)

DrainPrograms == {DrainProgram(argument) : argument \in DrainArguments}

\* --- a binary expression over two parameters of known types ---
OperandTypes == {"int", "float", "string", "boolean"}

AllOperators == ComparisonOperators \cup LogicalOperators \cup ArithmeticOperators

\* void function f(L a, R b) { T y = a <operator> b; }
BinaryProgram(L, R, operator, T) ==
    Program(<<FunctionDeclaration("void", "f",
                <<[dataType |-> L, name |-> "a"], [dataType |-> R, name |-> "b"]>>,
                <<VariableDeclaration(T, "y",
                    BinaryExpression(operator, Identifier("a"), Identifier("b")))>>)>>)

BinaryPrograms ==
    {BinaryProgram(L, R, operator, T) :
        L \in OperandTypes, R \in OperandTypes, operator \in AllOperators,
        T \in {"int", "float", "boolean"}}

\* --- a binary expression statement with a call as one or both operands ---
\* T function name() { return name(); }
Function1(T, name) ==
    FunctionDeclaration(T, name, <<>>, <<ReturnStatement(Call(name, <<>>))>>)

Sides == {"left", "right"}

CallOperand(operator, side, call) ==
    IF side = "left" THEN BinaryExpression(operator, call, Identifier("v"))
    ELSE BinaryExpression(operator, Identifier("v"), call)

\* RT function f() { .. }  void function w(T v) { v <operator> f(); }   (or f() <operator> v)
BranchProgram(T, RT, operator, side) ==
    Program(<<Function1(RT, "f"),
              FunctionDeclaration("void", "w", <<[dataType |-> T, name |-> "v"]>>,
                  <<ExpressionStatement(CallOperand(operator, side, Call("f", <<>>)))>>)>>)

\* The same with f not declared, or called with an argument it does not take
BrokenBranchProgram(T, operator, side, fault) ==
    Program((IF fault = "undeclared" THEN <<>> ELSE <<Function1(T, "f")>>)
            \o <<FunctionDeclaration("void", "w", <<[dataType |-> T, name |-> "v"]>>,
                   <<ExpressionStatement(CallOperand(operator, side,
                        Call("f", IF fault = "arguments" THEN <<Identifier("v")>> ELSE <<>>)))>>)>>)

Faults == {"undeclared", "arguments"}

\* RF function f() { .. }  RG function g() { .. }  f() <operator> g();
TwoCallProgram(RF, RG, operator) ==
    Program(<<Function1(RF, "f"), Function1(RG, "g"),
              ExpressionStatement(BinaryExpression(operator, Call("f", <<>>), Call("g", <<>>)))>>)

\* f() <operator> g(); with only f declared
MissingCallProgram(RF, operator) ==
    Program(<<Function1(RF, "f"),
              ExpressionStatement(BinaryExpression(operator, Call("f", <<>>), Call("g", <<>>)))>>)

BranchPrograms ==
    {BranchProgram(T, RT, operator, side) :
        T \in OperandTypes, RT \in OperandTypes, operator \in AllOperators, side \in Sides}
    \cup {BrokenBranchProgram(T, operator, side, fault) :
            T \in {"int", "boolean"}, operator \in {"==", "&&", "+"}, side \in Sides, fault \in Faults}
    \cup {TwoCallProgram(RF, RG, operator) :
            RF \in OperandTypes, RG \in OperandTypes, operator \in AllOperators}
    \cup {MissingCallProgram(RF, operator) : RF \in {"int", "boolean"}, operator \in {"==", "&&", "+"}}

\* --- a call as the value of a declaration or of a return ---
\* RT function f() { .. }  T x = f();  x = <literal of U>;
VariableCallProgram(T, RT, U) ==
    Program(<<Function1(RT, "f"), VariableDeclaration(T, "x", Call("f", <<>>)), Assign("x", U)>>)

\* RT function f() { .. }  H function h() { return f(); }
ReturnCallProgram(H, RT) ==
    Program(<<Function1(RT, "f"),
              FunctionDeclaration(H, "h", <<>>, <<ReturnStatement(Call("f", <<>>))>>)>>)

DeferredPrograms ==
    {VariableCallProgram(T, RT, U) : T \in ValueTypes, RT \in OperandTypes, U \in ValueTypes}
    \cup {ReturnCallProgram(H, RT) : H \in OperandTypes, RT \in OperandTypes}

\* --- for headers ---
ForInitializations == {VariableDeclaration("int", "i", IntLit), AssignmentExpression("n", IntLit)}

ForConditions == {BinaryExpression("<", Identifier("n"), IntLit), BoolLit, IntLit, StrLit}

ForIncrements ==
    {UnaryExpression(operator, Identifier(name), FALSE) :
        operator \in {"++", "--", "!", "-"}, name \in {"n", "fl", "s", "b"}}
    \cup {BinaryExpression("+", Identifier("n"), IntLit), AssignmentExpression("n", IntLit),
          Identifier("n")}

\* void function w(int n, float fl, string s, boolean b) {
\*     for (<initialization>; <condition>; <increment>) { break; } }
ForHeaderProgram(initialization, condition, increment) ==
    Program(<<FunctionDeclaration("void", "w",
                <<[dataType |-> "int", name |-> "n"], [dataType |-> "float", name |-> "fl"],
                  [dataType |-> "string", name |-> "s"], [dataType |-> "boolean", name |-> "b"]>>,
                <<ForLoop(initialization, condition, increment,
                          <<ControlFlowStatement("break")>>)>>)>>)

ForHeaderPrograms ==
    {ForHeaderProgram(initialization, condition, increment) :
        initialization \in ForInitializations, condition \in ForConditions,
        increment \in ForIncrements}

\* --- a variable used before its declaration, or never declared ---
UseKinds == {"direct", "argument", "operand", "target"}

UseOf(kind) ==
    CASE kind = "direct" -> AssignmentExpression("x", IntLit)              \* x = 1;
      [] kind = "argument" -> Call("h", <<Identifier("x")>>)               \* h(x);
      [] kind = "operand" ->                                               \* h(x + 1);
            Call("h", <<BinaryExpression("+", Identifier("x"), IntLit)>>)
      [] kind = "target" -> AssignmentExpression("x", Call("f", <<>>))     \* x = f();

\* int function h(int a) { return a; } int function f() { return f(); }
\* <use of x>; and then `int x = 1;` or nothing
LateUseProgram(kind, declared) ==
    Program(<<EchoFunction, Function1("int", "f"), ExpressionStatement(UseOf(kind))>>
            \o IF declared THEN <<VariableDeclaration("int", "x", IntLit)>> ELSE <<>>)

LateUsePrograms == {LateUseProgram(kind, declared) : kind \in UseKinds, declared \in BOOLEAN}

\* --- what follows a for loop in the scope that holds it ---
ForPlaces == {"global", "function", "while", "if"}

AfterFor == {"use", "useString", "for", "declaration", "stringDeclaration", "before",
             "inner", "nested"}

ForScopeStatements(after) ==
    CASE after = "use" -> <<For(<<>>), Assign("i", "int")>>
      [] after = "useString" -> <<For(<<>>), Assign("i", "string")>>
      [] after = "for" -> <<For(<<>>), For(<<>>)>>
      [] after = "declaration" -> <<For(<<>>), VariableDeclaration("int", "i", IntLit)>>
      [] after = "stringDeclaration" -> <<For(<<>>), VariableDeclaration("string", "i", StrLit)>>
      [] after = "before" -> <<VariableDeclaration("int", "i", IntLit), For(<<>>)>>
      [] after = "inner" -> <<For(<<VariableDeclaration("string", "i", StrLit)>>)>>
      [] after = "nested" -> <<For(<<For(<<>>)>>)>>

ForScopeProgram(place, after) ==
    LET statements == ForScopeStatements(after)
    IN CASE place = "global" -> Program(statements)
         [] place = "function" ->
               Program(<<FunctionDeclaration("void", "w", <<>>, statements)>>)
         [] place = "while" -> Program(<<While(statements)>>)
         [] place = "if" -> Program(<<If(BoolLit, statements)>>)

ForScopePrograms == {ForScopeProgram(place, after) : place \in ForPlaces, after \in AfterFor}

\* --- a declaration whose value is `v + f()` or `f() + v` ---
SideVariables == {"n", "fl", "s", "b"}

\* RF function f() { return f(); }
\* void function w(int n, float fl, string s, boolean b) { T y = v <operator> f(); }
\* or, for side = "left", T y = f() <operator> v;
SideProgram(T, v, RF, operator, side) ==
    Program(<<Function1(RF, "f"),
              FunctionDeclaration("void", "w",
                <<[dataType |-> "int", name |-> "n"], [dataType |-> "float", name |-> "fl"],
                  [dataType |-> "string", name |-> "s"], [dataType |-> "boolean", name |-> "b"]>>,
                <<VariableDeclaration(T, "y",
                    IF side = "left"
                    THEN BinaryExpression(operator, Call("f", <<>>), Identifier(v))
                    ELSE BinaryExpression(operator, Identifier(v), Call("f", <<>>)))>>)>>)

SidePrograms ==
    {SideProgram(T, v, RF, operator, side) :
        T \in OperandTypes, v \in SideVariables, RF \in OperandTypes,
        operator \in ArithmeticOperators, side \in Sides}

AnalyzeInputs ==
    ForwardPrograms \cup ArgumentPrograms \cup ControlFlowPrograms \cup ElseIfPrograms
    \cup HandBuiltPrograms \cup FailingPrograms \cup ValidPrograms
    \cup NestedReturnPrograms \cup ConditionCallPrograms \cup RedeclarationPrograms
    \cup ShadowPrograms \cup DrainPrograms \cup BinaryPrograms
    \cup BranchPrograms \cup DeferredPrograms \cup ForHeaderPrograms
    \cup LateUsePrograms \cup ForScopePrograms \cup SidePrograms

\* What a later analyze call of the same process is given: the same AST
\* again, or one of these.
LaterAsts == ValidPrograms \cup {Program(<<ControlFlowStatement("break")>>)}

(***************************************************************************)
(* The compiler: parse, then analyze.  analyze is first given what parse   *)
(* returned, or an AST of AnalyzeInputs when parse was not called; the     *)
(* parser is not called again once analysis has begun.                     *)
(***************************************************************************)
Analyze ==
    \/ /\ acalls = 0 /\ pstatus = "idle"
       /\ \E a \in AnalyzeInputs : AnalyzeCall(a)
    \/ /\ acalls = 0 /\ pstatus = "returned"
       /\ AnalyzeCall(presult)
    \/ /\ acalls > 0
       /\ \E a \in LaterAsts \cup {ast} : AnalyzeCall(a)

AnalyzerNext ==
    \/ Analyze
    \/ CheckVariableDeclaration
    \/ CheckFunctionDeclaration
    \/ CheckExpressionStatement
    \/ CheckReturn
    \/ CheckIfStatement
    \/ CheckElseIfs
    \/ CheckElseIf
    \/ CheckElse
    \/ CheckBody
    \/ CheckWhileLoop
    \/ CheckForLoop
    \/ PopContext
    \/ CheckControlFlowStatement
    \/ UnknownNode
    \/ EndTraverse
    \/ ResolveCalls
    \/ AnalyzeReturn

ParserStep == acalls = 0 /\ astatus = "idle" /\ ParserNext

Next == ParserStep \/ AnalyzerNext

Spec == Init /\ [][Next]_vars

\* The tokenizer alone
TokenizerSpec == Init /\ [][TokenizerNext]_vars

\* The next step of an analyze call that is under way, whichever function
\* of the module takes it
AnalyzerRun ==
    /\ astatus \in {"pass1", "pass2"}
    /\ \E m \in {analyzeStep(Current)} : Apply(m)

\* analyze is synchronous code: a call that was entered keeps running.
\* This is WF_vars(AnalyzerRun) with ENABLED <<AnalyzerRun>>_vars written as
\* the state predicate it equals, "a call is in pass 1 or pass 2".
AnalyzerFairness ==
    []<>(astatus \notin {"pass1", "pass2"}) \/ []<><<AnalyzerRun>>_vars

LiveSpec == Spec /\ AnalyzerFairness

(***************************************************************************)
(* Properties of the parser (checked under ParserSpec).                    *)
(***************************************************************************)
\* The precedence levels of the binary operators, lowest first
PrecedenceLevels ==
    <<{"||"}, {"&&"}, {"==", "!="}, {"<", "<=", ">", ">="}, {"+", "-"}, {"*", "/", "%"}, {"^"}>>

LevelOf(o) == CHOOSE i \in DOMAIN PrecedenceLevels : o \in PrecedenceLevels[i]

\* The tokens of `1 o1 b o2 3 ;`
Chain(o1, o2) == addToken(<<num("1"), op(o1), id("b"), op(o2), num("3"), SEMI>>)

OperandA == Literal("int", "1")

OperandB == Identifier("b")

OperandC == Literal("int", "3")

\* parseExpression, called on the first token of `1 o1 b o2 3 ;`, has returned
Parsed(o1, o2) == lastExpr.ok /\ lastExpr.start = 0 /\ tokens = Chain(o1, o2)

LeftNested(o1, o2) == BinaryExpression(o2, BinaryExpression(o1, OperandA, OperandB), OperandC)

RightNested(o1, o2) == BinaryExpression(o1, OperandA, BinaryExpression(o2, OperandB, OperandC))

\* C1: of two binary operators at different levels the one at the higher
\* level binds tighter: `a op1 b op2 c` with op2 higher is
\* BinaryExpression(op1, a, BinaryExpression(op2, b, c)), and with op1 higher
\* it is BinaryExpression(op2, BinaryExpression(op1, a, b), c).
C1_HigherLevelBindsTighter ==
    \A o1 \in BinaryOperators, o2 \in BinaryOperators :
        Parsed(o1, o2) =>
            /\ LevelOf(o2) > LevelOf(o1) => lastExpr.node = RightNested(o1, o2)
            /\ LevelOf(o1) > LevelOf(o2) => lastExpr.node = LeftNested(o1, o2)

\* `1 + b * 3` parsed: the root is `+` and its right operand is the `*` expression
C1_Witness ==
    /\ Parsed("+", "*")
    /\ lastExpr.node = BinaryExpression("+", OperandA, BinaryExpression("*", OperandB, OperandC))

\* C2: two binary operators of the same level other than `^` nest to the
\* left, BinaryExpression(op2, BinaryExpression(op1, a, b), c), and
\* `a ^ b ^ c` nests to the right, BinaryExpression(^, a, BinaryExpression(^, b, c)).
C2_Associativity ==
    \A o1 \in BinaryOperators, o2 \in BinaryOperators :
        (Parsed(o1, o2) /\ LevelOf(o1) = LevelOf(o2)) =>
            IF o1 = "^" THEN lastExpr.node = RightNested(o1, o2)
            ELSE lastExpr.node = LeftNested(o1, o2)

\* `1 ^ b ^ 3` parsed: the root is the first `^` and its right operand the second
C2_Witness == Parsed("^", "^") /\ lastExpr.node = RightNested("^", "^")

\* C3: when the tokens run out inside a block body, parse fails instead of
\* going on: no parseBody activation keeps the End-of-File node that
\* parseStatement returns at the end of the input and asks for more.
C3_BodyAtEndOfInputFails ==
    \A i \in DOMAIN pstack :
        pstack[i].fn = "parseBody" => eofNodes(pstack[i].acc.body) = 0

\* C6: a second parse of the tokens a first parse turned into an AST returns
\* that AST again.
C6_SecondParseSameAst ==
    (pstatus = "returned" /\ pprev.calls = 1 /\ pprev.status = "returned" /\ pprev.tokens = tokens)
        => presult = pprev.result

(***************************************************************************)
(* Properties of the analyzer (checked under Spec).                        *)
(***************************************************************************)
Finished == astatus \in {"returned", "failed"}

\* The invocation was entered with no pending call and no context frame
Clean == astart.callStack = 0 /\ astart.contextStack = 0

ControlFlowEvents == {i \in DOMAIN alog : alog[i].op = "controlFlow"}

\* Call sites that expect nothing of the callee's return type, or an int
Accepts(site, T) == T = "int" \/ site \in {"statement", "nested", "condition"}

\* C4: a call of g is accepted whether g is declared before or after the
\* call, when g is declared in the calling scope or an ancestor of it and
\* its return type is the one the call site expects.
C4_ForwardReferenceAccepted ==
    (Finished /\ Clean) =>
        \A site \in CallSites, T \in {"int", "string"}, order \in {"callFirst", "declarationFirst"} :
            ast = ForwardProgram(site, T, order) => (astatus = "returned" <=> Accepts(site, T))

\* `int function f(){ return g(); }` followed by `int function g(){ return 1; }` accepted
C4_Witness ==
    astatus = "returned" /\ Clean /\ ast = ForwardProgram("return", "int", "callFirst")

\* analyze(a) in a process where no analyze call ran before
FreshOutcome(a) ==
    Let(runAnalyze(analyzeStart(a, <<>>, <<>>, <<>>)), LAMBDA m : <<m.status, m.error>>)

\* C5: the outcome of analyze(ast) is the one of a process that never
\* called analyze before.
C5_OutcomeDependsOnlyOnAst == Finished => <<astatus, aerror>> = FreshOutcome(ast)

DedicatedError(flowType) ==
    IF flowType = "break"
    THEN "Break statement can only be used inside a loop or switch statement."
    ELSE "Continue statement can only be used inside a loop."

\* C7: a break or continue met while the context stack is empty fails with
\* the dedicated error of its kind.
C7_DedicatedErrorOutsideLoop ==
    \A i \in ControlFlowEvents :
        alog[i].depth = 0 => alog[i].error.msg = DedicatedError(alog[i].flowType)

\* C8: a break or continue with a while/for loop around it is accepted, at
\* any nesting in if/else bodies; with no loop around it, also right after
\* a loop, it is not accepted.
C8_LoopContext ==
    /\ \A i \in ControlFlowEvents :
          /\ alog[i].loops > 0 => alog[i].error = NoError
          /\ (alog[i].loops = 0 /\ Clean) => (alog[i].error # NoError /\ astatus = "failed")
    /\ (Finished /\ Clean) =>
          /\ ast \in InsideLoopPrograms => astatus = "returned"
          /\ ast \in AfterLoopPrograms \cup OutsideLoopPrograms => astatus = "failed"

\* `while (true) { if (true) { if (true) { } else { break; } } }` accepted
C8_Witness ==
    /\ astatus = "returned" /\ Clean
    /\ ast = Program(<<While(Wrap("ifElse", ControlFlowStatement("break")))>>)
    /\ \E i \in ControlFlowEvents : alog[i].loops = 1 /\ alog[i].error = NoError

\* The type of an argument of ArgumentLists
ArgumentType(arg) == IF arg = StrLit THEN "string" ELSE "int"

ExpectedOfCall(T, args) ==
    IF Len(args) # 2
    THEN <<"failed", "Function called with incorrect number of arguments.">>
    ELSE IF \E i \in 1..2 : ArgumentType(args[i]) # "int"
    THEN <<"failed", "Argument type mismatch">>
    ELSE IF T # "int" THEN <<"failed", "Variable type mismatch">>
    ELSE <<"returned", NoText>>

\* C9: `T r = add(args)` for `int function add(int a, int b)`: a wrong count
\* fails with the incorrect-number error, else a wrong argument type with
\* the argument-type error, else the call succeeds when T is int; the
\* failures are raised by resolveCalls, in pass 2.
C9_CallArgumentsChecked ==
    (Finished /\ Clean) =>
        \A T \in {"int", "string"}, args \in ArgumentLists :
            ast = ArgumentProgram(T, args) =>
                /\ <<astatus, aerror.msg>> = ExpectedOfCall(T, args)
                /\ astatus = "failed" => (alog # <<>> /\ alog[Len(alog)].op = "resolveCalls")

\* `int r = add(1, 1);` accepted
C9_Witness ==
    astatus = "returned" /\ Clean /\ ast = ArgumentProgram("int", <<IntLit, IntLit>>)

\* C10: an error in an else-if condition or body makes analyze fail.
C10_ElseIfChecked ==
    Finished =>
        \A c \in ElseIfConditions, b \in ElseIfBodies :
            (ast = ElseIfProgram(c, b) /\ (c # BoolLit \/ b # <<>>)) => astatus = "failed"

\* C11: a return inside an if, else, while or for body of `int function f`
\* is checked against the return type of f: accepted when the value is an
\* int, rejected with a return type mismatch otherwise.
C11_NestedReturnChecked ==
    (Finished /\ Clean) =>
        \A kind \in BlockKinds, R \in {"int", "string"} :
            ast = NestedReturnProgram(kind, R) =>
                IF R = "int" THEN astatus = "returned"
                ELSE astatus = "failed" /\ aerror.msg = "Return type mismatch"

\* C12: a call used as the condition of an if, a while or a for is accepted
\* exactly when the called function returns boolean.
C12_ConditionCallIsBoolean ==
    (Finished /\ Clean) =>
        \A kind \in ConditionKinds, T \in {"boolean", "int", "string"} :
            ast = ConditionCallProgram(kind, T) => (astatus = "returned" <=> T = "boolean")

\* The scope analyze created for the program: the last root of the arena
GlobalScope == CHOOSE g \in DOMAIN scopes :
    /\ scopes[g].parent = 0
    /\ \A h \in DOMAIN scopes : scopes[h].parent = 0 => h <= g

\* What the scope g holds for the first declaration of x or f
FirstEntryKept(what, g) ==
    IF what = "variable"
    THEN "x" \in DOMAIN scopes[g].variables /\ scopes[g].variables["x"] = "int"
    ELSE "f" \in DOMAIN scopes[g].functions /\ scopes[g].functions["f"].returnType = "int"

AlreadyDeclared(what) ==
    IF what = "variable" THEN "Variable already declared in this scope."
    ELSE "Function already declared in this scope."

\* C13: a second declaration of a variable or function name in the same
\* scope fails with the already-declared error and leaves the first entry
\* as it was; the same name declared in a nested scope is accepted.
C13_RedeclarationRejected ==
    (Finished /\ Clean) =>
        \A what \in DeclarationKinds, place \in DeclarationPlaces, T \in {"int", "string"} :
            ast = RedeclarationProgram(what, place, T) =>
                /\ FirstEntryKept(what, GlobalScope)
                /\ IF place = "same"
                   THEN astatus = "failed" /\ aerror.msg = AlreadyDeclared(what)
                   ELSE astatus = "returned"

\* `int x = 1; string x = "s";` rejected with x still an int
C13_Witness ==
    /\ astatus = "failed" /\ Clean
    /\ ast = RedeclarationProgram("variable", "same", "string")
    /\ aerror.msg = AlreadyDeclared("variable")
    /\ scopes[GlobalScope].variables["x"] = "int"

\* The outcome is success, or the failure with message msg
Outcome(success, msg) ==
    IF success THEN astatus = "returned" ELSE astatus = "failed" /\ aerror.msg = msg

\* C14: a name resolves to the declaration of the innermost scope on the
\* chain that declares it: inside a block that declares x again x has the
\* inner type, after the block it has the outer type again, a name of an
\* enclosing scope is visible in a block, and a name declared nowhere on the
\* chain fails with the not-defined error.
C14_InnermostDeclaration ==
    (Finished /\ Clean) =>
        /\ \A Tin \in {"string", "boolean"}, Uin \in ValueTypes, Uout \in ValueTypes :
              ast = ShadowProgram(Tin, Uin, Uout) =>
                  Outcome(Uin = Tin /\ Uout = "int", "Type mismatch in assignment")
        /\ \A kind \in BlockKinds, U \in ValueTypes :
              ast = OuterUseProgram(kind, U) => Outcome(U = "int", "Type mismatch in assignment")
        /\ \A kind \in BlockKinds :
              ast = InnerOnlyProgram(kind) => Outcome(FALSE, "Variable is not defined.")
        /\ ast = UndeclaredProgram => Outcome(FALSE, "Variable is not defined.")

\* `int x = 1; if (true) { string x = "s"; x = "s"; } x = 1;` accepted
C14_Witness ==
    astatus = "returned" /\ Clean /\ ast = ShadowProgram("string", "string", "int")

\* C15: when the first parse call of a process returns, the cursor equals
\* the number of tokens: every token was consumed by some statement.
C15_AllTokensConsumed ==
    (pstatus = "returned" /\ pcalls = 1) => current = Len(tokens)

\* C16: every failure of parse carries the expected lexeme, the lexeme
\* found, and the line and column of the token found.
C16_FailureCarriesPosition ==
    pstatus = "failed" =>
        /\ perror.expected # NoText /\ perror.found # NoText
        /\ perror.line > 0 /\ perror.column > 0

\* C18: analyze never modifies the AST it is given: at every point of the
\* call, and after it returned or failed, the AST is the one passed in.
C18_AstUnchanged ==
    astatus # "idle" => ast = astart.ast

\* analyze returned after pass 1 walked a body and pass 2 resolved a call
C18_Witness ==
    /\ astatus = "returned" /\ ast = astart.ast
    /\ ast.body # <<>>
    /\ \E k \in DOMAIN alog : alog[k].op = "resolveCalls"

ResolveEvents(log) == {k \in DOMAIN log : log[k].op = "resolveCalls"}

IsPrefix(s, t) == Len(s) <= Len(t) /\ SubSeq(t, 1, Len(s)) = s

\* C19: no step of pass 1 resolves a pending call or removes one: the
\* pending stack only grows by entries pushed on top, so every entry
\* registered in pass 1 is on the stack when pass 1 ends, and a failure in
\* pass 1 is thrown before any call was type-checked.
C19_NoResolutionInPassOne ==
    [][astatus = "pass1" => IsPrefix(callStack, callStack') /\ ResolveEvents(alog') = {}]_vars

\* Pass 1 has ended with two calls registered and none resolved
C19_Witness ==
    /\ astatus = "pass2" /\ alog = <<>>
    /\ Len(callStack) >= astart.callStack + 2

\* C20: every resolveCalls invocation of the drain loop that returns leaves
\* the pending stack exactly one entry shorter than it found it.
C20_DrainTurnPopsOne ==
    \A k \in ResolveEvents(alog) :
        alog[k].error = NoError => alog[k].after = alog[k].before - 1

\* C21: analyze terminates: every step of a call that is in pass 1 or
\* pass 2 changes the state of the module, and the call returns or fails
\* (the drain loop of pass 2 empties the pending stack or throws).
C21_AnalyzeTerminates ==
    /\ [](astatus \in {"pass1", "pass2"} => analyzeStep(Current) # Current)
    /\ (astatus \in {"pass1", "pass2"}) ~> Finished

\* analyze returned after a drain turn that resolved h(h(g())): a call entry
\* resolved inside the resolution of another, two levels deep
C21_Witness ==
    /\ astatus = "returned" /\ callStack = <<>>
    /\ ast = DrainProgram(Call("h", <<Call("g", <<>>)>>))
    /\ Cardinality(ResolveEvents(alog)) = 2

\* The rule of an operator for operands that both have type T
OperatorRule(operator, T) ==
    \/ operator \in ComparisonOperators
    \/ operator \in LogicalOperators /\ T = "boolean"
    \/ operator \in ArithmeticOperators /\ T \in {"int", "float"}

\* What checkBinaryExpression throws for operands of types L and R
BinaryError(L, R, operator) ==
    IF L # R THEN "Type mismatch in expression"
    ELSE IF operator \in LogicalOperators THEN "Logical operators require boolean operands"
    ELSE "Arithmetic operators require numeric operands"

\* C22: with both operand types known, a binary expression fails when the
\* types differ; otherwise a comparison yields boolean for any type, a
\* logical operator yields boolean and needs boolean operands, and an
\* arithmetic operator yields the operand type and needs int or float
\* operands.  `T y = a <operator> b` shows the type that is yielded.
C22_BinaryExpressionTypes ==
    (Finished /\ Clean /\ ast.type = "Program" /\ Len(ast.body) = 1
        /\ ast.body[1].type = "FunctionDeclaration" /\ Len(ast.body[1].parameters) = 2
        /\ Len(ast.body[1].body) = 1 /\ ast.body[1].body[1].type = "VariableDeclaration"
        /\ ast.body[1].body[1].value.type = "BinaryExpression") =>
        LET L == ast.body[1].parameters[1].dataType
            R == ast.body[1].parameters[2].dataType
            T == ast.body[1].body[1].dataType
            operator == ast.body[1].body[1].value.operator
        IN ast = BinaryProgram(L, R, operator, T) =>
              IF L = R /\ OperatorRule(operator, L)
              THEN Outcome(T = (IF operator \in ArithmeticOperators THEN L ELSE "boolean"),
                           "Type mismatch: variable")
              ELSE Outcome(FALSE, BinaryError(L, R, operator))

\* `float y = a % b` over two float parameters accepted
C22_Witness ==
    astatus = "returned" /\ Clean /\ ast = BinaryProgram("float", "float", "%", "float")

\* The expression statement of w in a program `f..; void function w(T v) { <statement> }`
IsBranchProgram ==
    /\ ast.type = "Program" /\ Len(ast.body) = 2
    /\ ast.body[2].type = "FunctionDeclaration" /\ ast.body[2].name = "w"
    /\ Len(ast.body[2].body) = 1 /\ ast.body[2].body[1].type = "ExpressionStatement"

\* f() <operator> g(); as the last of three statements
IsTwoCallProgram ==
    /\ ast.type = "Program" /\ Len(ast.body) = 3
    /\ ast.body[1].type = "FunctionDeclaration" /\ ast.body[2].type = "FunctionDeclaration"
    /\ ast.body[3].type = "ExpressionStatement"
    /\ ast.body[3].expression.type = "BinaryExpression"

\* C23: a binary expression statement with one call operand f() and an
\* operand of known type T is accepted exactly when f resolves, its
\* arguments check, T is the return type of f and the operator rule holds
\* for T; with two call operands f() and g(), exactly when both resolve and
\* their return types are equal and satisfy the operator rule.
C23_CallOperandChecked ==
    /\ (Finished /\ Clean /\ IsBranchProgram) =>
          LET T == ast.body[2].parameters[1].dataType
              RT == ast.body[1].returnType
              e == ast.body[2].body[1].expression
              side == IF e.left.type = "FunctionCall" THEN "left" ELSE "right"
          IN ast = BranchProgram(T, RT, e.operator, side) =>
                (astatus = "returned" <=> (T = RT /\ OperatorRule(e.operator, T)))
    /\ (Finished /\ Clean) =>
          \A T \in {"int", "boolean"}, operator \in {"==", "&&", "+"}, side \in Sides,
             fault \in Faults :
              ast = BrokenBranchProgram(T, operator, side, fault) => astatus = "failed"
    /\ (Finished /\ Clean /\ IsTwoCallProgram) =>
          LET RF == ast.body[1].returnType
              RG == ast.body[2].returnType
              operator == ast.body[3].expression.operator
          IN ast = TwoCallProgram(RF, RG, operator) =>
                (astatus = "returned" <=> (RF = RG /\ OperatorRule(operator, RF)))
    /\ (Finished /\ Clean) =>
          \A RF \in {"int", "boolean"}, operator \in {"==", "&&", "+"} :
              ast = MissingCallProgram(RF, operator) => astatus = "failed"

\* `v * f()` with a float v and f returning float accepted in pass 2
C23_Witness ==
    /\ astatus = "returned" /\ Clean /\ ast = BranchProgram("float", "float", "*", "right")
    /\ ResolveEvents(alog) # {}

\* The call has failed in pass 2: a resolveCalls invocation threw msg
FailedInPassTwo(msg) ==
    /\ astatus = "failed" /\ aerror.msg = msg
    /\ ResolveEvents(alog) # {} /\ alog[Len(alog)].error = aerror

\* C24: `T x = f()` is accepted in pass 1 and declares x with type T at
\* once, so a later statement of the scope can use x; it fails in pass 2
\* exactly when the return type of f is not T.  `return f()` directly in
\* the body of h is accepted in pass 1 and fails in pass 2 exactly when the
\* return type of f is not the declared return type of h.
C24_DeferredValueChecked ==
    (Clean /\ ast.type = "Program" /\ Len(ast.body) \in {2, 3}
        /\ ast.body[1].type = "FunctionDeclaration" /\ ast.body[1].name = "f") =>
        /\ \A T \in ValueTypes, RT \in OperandTypes, U \in ValueTypes :
              ast = VariableCallProgram(T, RT, U) =>
                  /\ (astatus = "pass2" \/ ResolveEvents(alog) # {}) =>
                        /\ U = T
                        /\ "x" \in DOMAIN scopes[GlobalScope].variables
                        /\ scopes[GlobalScope].variables["x"] = T
                  /\ Finished =>
                        IF U # T
                        THEN Outcome(FALSE, "Type mismatch in assignment") /\ alog = <<>>
                        ELSE IF RT = T THEN astatus = "returned"
                        ELSE FailedInPassTwo("Variable type mismatch")
        /\ \A H \in OperandTypes, RT \in OperandTypes :
              (Finished /\ ast = ReturnCallProgram(H, RT)) =>
                  IF RT = H THEN astatus = "returned"
                  ELSE FailedInPassTwo("Return type mismatch")

\* `boolean x = f(); x = true;` with f returning int: x was declared and
\* used in pass 1, the call is rejected in pass 2
C24_Witness ==
    /\ Clean /\ ast = VariableCallProgram("boolean", "int", "boolean")
    /\ FailedInPassTwo("Variable type mismatch")
    /\ scopes[GlobalScope].variables["x"] = "boolean"

\* The type of a parameter of w
ParameterType(name) ==
    CASE name = "n" -> "int" [] name = "fl" -> "float" [] name = "s" -> "string"
      [] name = "b" -> "boolean"

\* The first check of checkForLoop that the header fails, or NoText
ForHeaderError(initialization, condition, increment) ==
    IF initialization.type # "VariableDeclaration"
    THEN "For loop initialization must be a variable declaration"
    ELSE IF condition \notin {BoolLit, BinaryExpression("<", Identifier("n"), IntLit)}
    THEN "Condition must be boolean"
    ELSE IF increment.type # "UnaryExpression"
    THEN "For loop must have an increment or decrement"
    ELSE IF increment.operator \notin {"++", "--"}
    THEN "For loop increment must be '++' or '--'"
    ELSE IF ParameterType(increment.argument.name) \notin {"int", "float"}
    THEN "For loop increment must be numeric"
    ELSE NoText

IsForHeaderProgram ==
    /\ ast.type = "Program" /\ Len(ast.body) = 1
    /\ ast.body[1].type = "FunctionDeclaration" /\ ast.body[1].name = "w"
    /\ Len(ast.body[1].body) = 1 /\ ast.body[1].body[1].type = "ForLoop"

\* C25: checkForLoop fails when the initializer is no VariableDeclaration,
\* the condition's known type is not boolean, the increment is no
\* UnaryExpression, its operator is neither ++ nor --, or its operand is
\* neither int nor float; a header that passes these checks is accepted and
\* the `break` in its body finds a loop frame on the context stack.
C25_ForHeaderChecked ==
    (Finished /\ Clean /\ IsForHeaderProgram) =>
        LET for == ast.body[1].body[1]
            expected == ForHeaderError(for.initialization, for.condition, for.increment)
        IN ast = ForHeaderProgram(for.initialization, for.condition, for.increment) =>
              IF expected # NoText THEN Outcome(FALSE, expected) /\ alog = <<>>
              ELSE /\ astatus = "returned"
                   /\ \E k \in ControlFlowEvents :
                         alog[k].depth = 1 /\ alog[k].error = NoError

\* `for (int i = 1; n < 1; fl--) { break; }` accepted
C25_Witness ==
    /\ astatus = "returned" /\ Clean
    /\ ast = ForHeaderProgram(VariableDeclaration("int", "i", IntLit),
                              BinaryExpression("<", Identifier("n"), IntLit),
                              UnaryExpression("--", Identifier("fl"), FALSE))
    /\ \E k \in ControlFlowEvents : alog[k].depth = 1 /\ alog[k].error = NoError

RECURSIVE ExpressionVariant(_)
\* node is one of the expression variants, and so is every node below it
ExpressionVariant(node) ==
    CASE node.type \in {"Literal", "Identifier"} -> TRUE
      [] node.type = "FunctionCall" ->
            \A i \in 1..Len(node.arguments) : ExpressionVariant(node.arguments[i])
      [] node.type = "AssignmentExpression" ->
            node.left.type = "Identifier" /\ ExpressionVariant(node.right)
      [] node.type = "UnaryExpression" -> ExpressionVariant(node.argument)
      [] node.type = "BinaryExpression" ->
            ExpressionVariant(node.left) /\ ExpressionVariant(node.right)
      [] OTHER -> FALSE

RECURSIVE StatementVariant(_)
\* node is one of the statement variants, and so is every node below it
StatementVariant(node) ==
    LET Body(body) == \A i \in 1..Len(body) : StatementVariant(body[i])
    IN CASE node.type = "VariableDeclaration" -> ExpressionVariant(node.value)
         [] node.type = "ExpressionStatement" -> ExpressionVariant(node.expression)
         [] node.type = "ReturnStatement" -> ExpressionVariant(node.value)
         [] node.type = "ControlFlowStatement" -> TRUE
         [] node.type = "FunctionDeclaration" -> Body(node.body)
         [] node.type = "WhileLoop" -> ExpressionVariant(node.condition) /\ Body(node.body)
         [] node.type = "ForLoop" ->
               /\ StatementVariant(node.initialization)
               /\ ExpressionVariant(node.condition) /\ ExpressionVariant(node.increment)
               /\ Body(node.body)
         [] node.type = "IfStatement" ->
               /\ ExpressionVariant(node.condition) /\ Body(node.body) /\ Body(node.else)
               /\ \A i \in 1..Len(node.elseIf) :
                     ExpressionVariant(node.elseIf[i].condition) /\ Body(node.elseIf[i].body)
         [] OTHER -> FALSE

\* C26: an AST that parse returned is a Program whose every node is one of
\* the statement or expression variants (no "End of File" node among them),
\* and the analyze call that is given it never fails on an unknown node type.
C26_ParsedNodesEnumerated ==
    pstatus = "returned" =>
        /\ presult.type = "Program"
        /\ \A i \in 1..Len(presult.body) : StatementVariant(presult.body[i])
        /\ (acalls = 1 /\ astatus = "failed") => aerror.msg # "Unknown AST node type"

\* analyze has finished on a parsed program that has a statement inside a block
C26_Witness ==
    /\ pstatus = "returned" /\ acalls = 1 /\ Finished /\ ast = presult
    /\ \E i \in 1..Len(presult.body) :
          /\ presult.body[i].type \in {"IfStatement", "WhileLoop", "ForLoop", "FunctionDeclaration"}
          /\ presult.body[i].body # <<>>

\* C27: while pass 1 is at a node, the context stack has one frame for every
\* while/for statement around that node; every frame is a loop frame; and
\* when analyze returns the context stack has the depth it had on entry and
\* no call is pending.
C27_ContextStackDepth ==
    /\ (astatus = "pass1" /\ work # <<>> /\ Head(work).task \in {"node", "body"}) =>
          Len(contextStack) = Head(work).loops
    /\ \A i \in DOMAIN contextStack : contextStack[i] = LoopContext
    /\ astatus = "returned" =>
          Len(contextStack) = astart.contextStack /\ callStack = <<>>

\* C28: a use of a variable that no scope of the visible chain declares at
\* the point of use makes analyze fail, also when the use is an argument of
\* a call or the target of an assignment of a call, and also when the same
\* scope declares the variable further down.
C28_UndeclaredUseRejected ==
    (Finished /\ Clean) =>
        \A kind \in UseKinds, declared \in BOOLEAN :
            ast = LateUseProgram(kind, declared) => Outcome(FALSE, "Variable is not defined.")

\* The error of what follows the for loop, or NoText
ForScopeError(after) ==
    CASE after \in {"use", "inner", "nested"} -> NoText
      [] after = "useString" -> "Type mismatch in assignment"
      [] OTHER -> "Variable already declared in this scope."

\* C29: the variable of a for-loop initializer is declared in the scope that
\* holds the for statement: a statement after the loop sees it with its type,
\* a second declaration of the name in that scope (by another for loop or by
\* a declaration, before or after) fails as a redeclaration, and the loop
\* body, a scope of its own, may declare the name again.
C29_ForVariableInEnclosingScope ==
    (Finished /\ Clean) =>
        \A place \in ForPlaces, after \in AfterFor :
            ast = ForScopeProgram(place, after) =>
                /\ Outcome(ForScopeError(after) = NoText, ForScopeError(after))
                /\ place = "global" =>
                      /\ "i" \in DOMAIN scopes[GlobalScope].variables
                      /\ scopes[GlobalScope].variables["i"] = "int"

\* `for (int i = 1; i < 1; i++) { } for (int i = 1; i < 1; i++) { }` was rejected
C29_Witness ==
    /\ Finished /\ Clean
    /\ \E place \in ForPlaces : ast = ForScopeProgram(place, "for")
    /\ aerror.msg = "Variable already declared in this scope."

IsSideProgram ==
    /\ ast.type = "Program" /\ Len(ast.body) = 2
    /\ ast.body[2].type = "FunctionDeclaration" /\ ast.body[2].name = "w"
    /\ Len(ast.body[2].body) = 1 /\ ast.body[2].body[1].type = "VariableDeclaration"
    /\ ast.body[2].body[1].value.type = "BinaryExpression"

\* C30: `T y = v + f();` and `T y = f() + v;` have the same outcome, accepted
\* or rejected, for every T, every type of v, every return type of f and
\* every arithmetic operator.
C30_CallSideIrrelevant ==
    (Finished /\ Clean /\ IsSideProgram) =>
        LET value == ast.body[2].body[1].value
            side == IF value.left.type = "FunctionCall" THEN "left" ELSE "right"
            v == IF side = "left" THEN value.right.name ELSE value.left.name
            other(s) == SideProgram(ast.body[2].body[1].dataType, v, ast.body[1].returnType,
                                    value.operator, s)
        IN ast = other(side) =>
              astatus = FreshOutcome(other(IF side = "left" THEN "right" ELSE "left"))[1]

(***************************************************************************)
(* Properties of the tokenizer (checked under TokenizerSpec).              *)
(***************************************************************************)
FusedOperators ==
    {<<"=", "=">>, <<"!", "=">>, <<"<", "=">>, <<">", "=">>, <<"+", "=">>, <<"-", "=">>,
     <<"*", "=">>, <<"/", "=">>, <<"&", "&">>, <<"|", "|">>, <<"+", "+">>, <<"-", "-">>}

Lexemes(toks) == [k \in DOMAIN toks |-> toks[k].lexeme]

\* The first tokenizer call of the process has returned
Scanned == sstatus = "returned" /\ scalls = 1

\* C17: the two adjacent characters of a multi-character operator are
\* emitted as one operator token with that lexeme: `a<op>b;` gives the
\* lexemes a, <op>, b, ; for each of the twelve operators.
C17_OperatorsFused ==
    Scanned =>
        \A pair \in FusedOperators :
            arr = preProcess(OperatorSource(pair[1], pair[2]), 1) =>
                Lexemes(emitted) = <<"a", pair[1] \o pair[2], "b", ";">>

====
